---- MODULE Spec2Model ----
(***************************************************************************)
(* Aged associative containers (beast::detail::aged_ordered_container and  *)
(* beast::detail::aged_unordered_container).  Two containers "a" and "b"   *)
(* of one template instantiation (ordered/unordered, unique/multi) share a *)
(* heap of elements.  Every element is linked in an associative index      *)
(* (m_cont) and in a chronological list.  The value type is a pair of a    *)
(* key and a mapped value; a set is the case where the mapped value is     *)
(* never looked at.                                                        *)
(***************************************************************************)
EXTENDS Integers, Sequences, FiniteSets, TLC

\* ---------------------------------------------------------------- bounds
MaxNodes == 4
MaxTime == 1
MaxKey == 2
MaxRange == 2
MaxCount == 2
MaxCalls == 3
MaxInput == 3

\* ------------------------------------------------------- program constants
\* Buckets::Buckets: m_max_load_factor (1.f), kept as a multiple of 1/LFDen
InitialMaxLoadFactor == 1
LFDen == 2

VARIABLES
    variant,    \* template arguments: [unordered, multi, propagate]
    now,        \* now[k]: reading of manual clock k
    elem,       \* heap of elements: elem[p] = [live, key, mapped, when, alloc]
    list,       \* list[c]: chronological.list of container c (oldest first)
    tree,       \* tree[c]: ordered m_cont, element ids in comparator order
    table,      \* table[c]: unordered m_cont = [arr, cnt, size]
    m_buck,     \* m_buck[c]: Buckets = [mlf, vec, size]
    vecs,       \* heap of bucket arrays: vecs[v] = [alive, cap, b]
    clock,      \* clock[c]: the clock m_config.clock refers to
    alloc,      \* alloc[c]: the allocator m_config.alloc() holds
    crashed,    \* the process was terminated by undefined behaviour
    call,       \* the last public call and what it returned
    calls       \* number of public calls made so far

vars ==
    <<variant, now, elem, list, tree, table, m_buck, vecs, clock, alloc, crashed, call, calls>>

Cont == {"a", "b"}
Other(c) == IF c = "a" THEN "b" ELSE "a"
Clocks == {1, 2}
NodeIds == 1..MaxNodes
Keys == 1..MaxKey
Mapped == {0, 1}
VecIds == 1..5
End == 0

IsUnordered == variant.unordered
IsMulti == variant.multi

Values == [key : Keys, mapped : Mapped]

NoElem == [live |-> FALSE, key |-> 0, mapped |-> 0, when |-> 0, alloc |-> 0]
NoVec == [alive |-> FALSE, cap |-> 0, b |-> <<>>]

\* ------------------------------------------------------ sequence helpers
SeqSet(s) == {s[i] : i \in 1..Len(s)}
SeqRemove(s, x) == SelectSeq(s, LAMBDA y : y # x)
SeqInsertBefore(s, i, x) == SubSeq(s, 1, i - 1) \o <<x>> \o SubSeq(s, i, Len(s))
IndexOf(s, x) == CHOOSE i \in 1..Len(s) : s[i] = x
Min(S) == CHOOSE x \in S : \A y \in S : x <= y
Max(S) == CHOOSE x \in S : \A y \in S : y <= x

\* The mutable program state threaded through the member functions.
State ==
    [elem |-> elem, list |-> list, tree |-> tree, table |-> table,
     m_buck |-> m_buck, vecs |-> vecs, clock |-> clock, alloc |-> alloc,
     ub |-> FALSE, fatal |-> FALSE, asserted |-> TRUE, allocs |-> 0, frees |-> 0]

\* extract (value): the key of a stored value
extract(S, p) == S.elem[p].key

\* std::less <Key>
Compare(k1, k2) == k1 < k2

\* --------------------------------------------------- element allocation
FreeIds(S) == {p \in NodeIds : ~S.elem[p].live}
NewId(S) == Min(FreeIds(S))

\* new_element: allocate, then construct with clock().now() and the value
new_element_unstamped(S, c, v) ==
    [S EXCEPT !.elem[NewId(S)] =
                  [live |-> TRUE, key |-> v.key, mapped |-> v.mapped, when |-> 0,
                   alloc |-> S.alloc[c]],
              !.allocs = @ + 1]

new_element(S, c, v) ==
    [S EXCEPT !.elem[NewId(S)] =
                  [live |-> TRUE, key |-> v.key, mapped |-> v.mapped,
                   when |-> now[S.clock[c]], alloc |-> S.alloc[c]],
              !.allocs = @ + 1]

\* new_element when the element's constructor or the clock throws: the
\* storage was allocated, nothing releases it
new_element_throws(S, c) ==
    [S EXCEPT !.elem[NewId(S)] = [NoElem EXCEPT !.live = TRUE, !.alloc = S.alloc[c]],
              !.allocs = @ + 1]

delete_element(S, p) ==
    [S EXCEPT !.elem[p] = NoElem, !.frees = @ + 1]

\* an erase that fills the place of the node with the last node
list_erase_swapping(S, p) ==
    [S EXCEPT !.list = [c \in Cont |->
        IF p \notin SeqSet(S.list[c]) THEN S.list[c]
        ELSE SeqRemove([S.list[c] EXCEPT ![IndexOf(S.list[c], p)] = S.list[c][Len(S.list[c])],
                                         ![Len(S.list[c])] = p], p)]]

\* boost::intrusive::list erase: the node is unlinked from its neighbours
list_erase(S, p) ==
    [S EXCEPT !.list = [c \in Cont |-> SeqRemove(S.list[c], p)]]

list_push_front(S, c, p) ==
    [S EXCEPT !.list[c] = <<p>> \o @]

list_push_back(S, c, p) ==
    [S EXCEPT !.list[c] = Append(@, p)]

\* m_config = other.m_config: the allocator is assigned, the clock
\* reference is rebound
config_assign(S, c, other) ==
    [S EXCEPT !.clock[c] = S.clock[other], !.alloc[c] = S.alloc[other]]

\* swap_data: the clocks are exchanged, and the allocators when
\* propagate_on_container_swap holds
swap_data(S, c, other) ==
    [S EXCEPT !.clock[c] = S.clock[other], !.clock[other] = S.clock[c],
              !.alloc[c] = IF variant.propagate THEN S.alloc[other] ELSE @,
              !.alloc[other] = IF variant.propagate THEN S.alloc[c] ELSE @]

\* ======================================================================
\* aged_ordered_container
\* ======================================================================

\* m_cont.lower_bound: first position whose key is not less than k
ord_lower_bound(S, c, k) ==
    LET I == {i \in 1..Len(S.tree[c]) : ~Compare(extract(S, S.tree[c][i]), k)}
    IN  IF I = {} THEN Len(S.tree[c]) + 1 ELSE Min(I)

\* m_cont.upper_bound: first position whose key is greater than k
ord_upper_bound(S, c, k) ==
    LET I == {i \in 1..Len(S.tree[c]) : Compare(k, extract(S, S.tree[c][i]))}
    IN  IF I = {} THEN Len(S.tree[c]) + 1 ELSE Min(I)

\* iterator at a position of the tree (End past the last one)
ord_at(S, c, i) == IF i \in 1..Len(S.tree[c]) THEN S.tree[c][i] ELSE End

\* ++iter
ord_next(S, c, p) == ord_at(S, c, IndexOf(S.tree[c], p) + 1)

\* m_cont.find
ord_find(S, c, k) ==
    LET p == ord_at(S, c, ord_lower_bound(S, c, k))
    IN  IF p # End /\ ~Compare(k, extract(S, p)) THEN p ELSE End

ord_count(S, c, k) == ord_upper_bound(S, c, k) - ord_lower_bound(S, c, k)

ord_size(S, c) == Len(S.tree[c])

\* m_cont.insert_check: (existing, false) or (commit position, true)
ord_insert_check(S, c, k) ==
    LET p == ord_find(S, c, k)
    IN  IF p # End THEN [first |-> p, second |-> FALSE, d |-> 0]
        ELSE [first |-> End, second |-> TRUE, d |-> ord_lower_bound(S, c, k)]

\* m_cont.insert_commit / m_cont.insert_before
ord_link_back(S, c, i, p) ==
    [S EXCEPT !.tree[c] = Append(@, p)]

ord_link(S, c, i, p) ==
    [S EXCEPT !.tree[c] = SeqInsertBefore(@, i, p)]

\* chronological.list.push_back (*p), then the element enters the index
ord_link_new(S, c, i, p) == ord_link(list_push_back(S, c, p), c, i, p)

ord_unlink_and_delete_element(S, c, p) ==
    delete_element([list_erase(S, p) EXCEPT !.tree[c] = SeqRemove(@, p)], p)

\* insert (value_type const&), set and map
ord_insert(S, c, v) ==
    LET result == ord_insert_check(S, c, v.key)
    IN  IF result.second
        THEN [s |-> ord_link_new(new_element(S, c, v), c, result.d, NewId(S)),
              it |-> NewId(S), ok |-> TRUE]
        ELSE [s |-> S, it |-> result.first, ok |-> FALSE]

\* the position of a hint in the tree, end() past the last one
ord_hint_index(S, c, hint) ==
    IF hint = End THEN Len(S.tree[c]) + 1 ELSE IndexOf(S.tree[c], hint)

\* m_cont.insert_check with a hint: when the key is less than the hint (or
\* the hint is end()) and greater than the hint's predecessor (or the hint
\* is begin()), the commit position is before the hint; any other hint is
\* dropped for the probe without a hint
ord_insert_check_trusting(S, c, hint, k) ==
    [first |-> End, second |-> TRUE, d |-> ord_hint_index(S, c, hint)]

ord_insert_check_hint(S, c, hint, k) ==
    IF /\ (hint = End \/ Compare(k, extract(S, hint)))
       /\ \/ ord_hint_index(S, c, hint) = 1
          \/ Compare(extract(S, S.tree[c][ord_hint_index(S, c, hint) - 1]), k)
    THEN [first |-> End, second |-> TRUE, d |-> ord_hint_index(S, c, hint)]
    ELSE ord_insert_check(S, c, k)

\* insert (const_iterator hint, value_type const&), set and map
ord_insert_hint(S, c, hint, v) ==
    LET result == ord_insert_check_hint(S, c, hint, v.key)
    IN  IF result.second
        THEN [s |-> ord_link_new(new_element(S, c, v), c, result.d, NewId(S)),
              it |-> NewId(S), ok |-> TRUE]
        ELSE [s |-> S, it |-> result.first, ok |-> FALSE]

\* insert (value_type const&), multiset and multimap
ord_insert_multi_lower(S, c, v) ==
    [s |-> ord_link_new(new_element(S, c, v), c, ord_lower_bound(S, c, v.key), NewId(S)),
     it |-> NewId(S), ok |-> TRUE]

ord_insert_multi(S, c, v) ==
    [s |-> ord_link_new(new_element(S, c, v), c, ord_upper_bound(S, c, v.key), NewId(S)),
     it |-> NewId(S), ok |-> TRUE]

\* insert (hint, value), any variant
ord_insert_any(S, c, hint, v) ==
    IF IsMulti THEN ord_insert_multi(S, c, v) ELSE ord_insert_hint(S, c, hint, v)

\* insert (InputIt first, InputIt last): insert (cend(), *first) for each
RECURSIVE ord_insert_range(_, _, _)
ord_insert_range(S, c, vs) ==
    IF vs = <<>> THEN S
    ELSE ord_insert_range(ord_insert_any(S, c, End, Head(vs)).s, c, Tail(vs))

\* emplace, set and map, after new_element: the probe, then the commit or
\* delete_element
ord_emplace_check(S, c, p) ==
    LET result == ord_insert_check(S, c, extract(S, p))
    IN  IF result.second
        THEN [s |-> ord_link_new(S, c, result.d, p), it |-> p, ok |-> TRUE]
        ELSE [s |-> delete_element(S, p), it |-> result.first, ok |-> FALSE]

\* emplace, set and map: the element is constructed before the probe
ord_emplace(S, c, v) == ord_emplace_check(new_element(S, c, v), c, NewId(S))

\* emplace, multiset and multimap, after new_element
ord_emplace_link(S, c, p) ==
    [s |-> ord_link_new(S, c, ord_upper_bound(S, c, extract(S, p)), p),
     it |-> p, ok |-> TRUE]

\* emplace, multiset and multimap
ord_emplace_multi(S, c, v) == ord_emplace_link(new_element(S, c, v), c, NewId(S))

\* emplace when a user operation throws: in new_element ("construct"), or
\* the comparator in insert_check or upper_bound ("compare"); no handler
\* on the way out
ord_emplace_throws(S, c, v, point) ==
    IF point = "construct" THEN new_element_throws(S, c) ELSE new_element(S, c, v)

ord_emplace_any(S, c, v) ==
    IF IsMulti THEN ord_emplace_multi(S, c, v) ELSE ord_emplace(S, c, v)

\* emplace_hint, set and map, after new_element: the probe with the hint
ord_emplace_hint_check(S, c, hint, p) ==
    LET result == ord_insert_check_hint(S, c, hint, extract(S, p))
    IN  IF result.second
        THEN [s |-> ord_link_new(S, c, result.d, p), it |-> p, ok |-> TRUE]
        ELSE [s |-> delete_element(S, p), it |-> result.first, ok |-> FALSE]

\* emplace_hint; multiset and multimap pass the arguments on to emplace
ord_emplace_hint(S, c, hint, v) ==
    IF IsMulti THEN ord_emplace_multi(S, c, v)
    ELSE ord_emplace_hint_check(new_element(S, c, v), c, hint, NewId(S))

\* operator[] (Key const&)
ord_operator_index_stale(S, c, k) ==
    LET result == ord_insert_check(S, c, k)
    IN  IF result.second
        THEN [s |-> ord_link_new([new_element(S, c, [key |-> k, mapped |-> 0])
                                     EXCEPT !.elem[NewId(S)].when = 0],
                                 c, result.d, NewId(S)),
              it |-> NewId(S), ok |-> TRUE]
        ELSE [s |-> S, it |-> result.first, ok |-> FALSE]

ord_operator_index(S, c, k) ==
    LET result == ord_insert_check(S, c, k)
    IN  IF result.second
        THEN [s |-> ord_link_new(new_element(S, c, [key |-> k, mapped |-> 0]),
                                 c, result.d, NewId(S)),
              it |-> NewId(S), ok |-> TRUE]
        ELSE [s |-> S, it |-> result.first, ok |-> FALSE]

\* erase (pos): returns the successor in the associative order
ord_erase_stay(S, c, p) ==
    [s |-> ord_unlink_and_delete_element(S, c, p), it |-> p]

ord_erase(S, c, p) ==
    [s |-> ord_unlink_and_delete_element(S, c, p), it |-> ord_next(S, c, p)]

\* erase (first, last)
RECURSIVE ord_erase_range(_, _, _, _)
ord_erase_range(S, c, first, lst) ==
    IF first = lst THEN [s |-> S, it |-> first]
    ELSE ord_erase_range(ord_unlink_and_delete_element(S, c, first), c,
                         ord_next(S, c, first), lst)

\* erase (K const& k).  The test of the loop reads iter->value after the
\* increment; when iter is end() the value read is not an element and
\* garbage is the outcome of the comparison on it.  A loop that goes on
\* from end() unlinks the header of the tree.  read_end tells that the
\* test was evaluated on end().
RECURSIVE ord_erase_loop(_, _, _, _, _)
ord_erase_loop(S, c, p, n, garbage) ==
    LET iter == ord_next(S, c, p)
        done == IF iter = End THEN garbage
                ELSE Compare(extract(S, p), extract(S, iter))
    IN  IF done
        THEN [s |-> ord_unlink_and_delete_element(S, c, p), n |-> n + 1,
              read_end |-> iter = End]
        ELSE IF iter = End
        THEN [s |-> [ord_unlink_and_delete_element(S, c, p) EXCEPT !.fatal = TRUE],
              n |-> n + 1, read_end |-> TRUE]
        ELSE ord_erase_loop(ord_unlink_and_delete_element(S, c, p), c, iter,
                            n + 1, garbage)

ord_erase_key(S, c, k, garbage) ==
    IF ord_find(S, c, k) = End THEN [s |-> S, n |-> 0, read_end |-> FALSE]
    ELSE ord_erase_loop(S, c, ord_find(S, c, k), 0, garbage)

\* touch (pos, now)
ord_touch_unstamped(S, c, p, t) ==
    list_push_back(list_erase(S, p), c, p)

ord_touch(S, c, p, t) ==
    list_push_back(list_erase([S EXCEPT !.elem[p].when = t], p), c, p)

RECURSIVE ord_touch_all(_, _, _, _)
ord_touch_all(S, c, ps, t) ==
    IF ps = <<>> THEN S
    ELSE ord_touch_all(ord_touch(S, c, Head(ps), t), c, Tail(ps), t)

\* m_cont.equal_range
ord_equal_range(S, c, k) ==
    SubSeq(S.tree[c], ord_lower_bound(S, c, k), ord_upper_bound(S, c, k) - 1)

\* a loop that reads the clock for each node, while the clock goes on
RECURSIVE ord_touch_all_rereading(_, _, _, _)
ord_touch_all_rereading(S, c, ps, t) ==
    IF ps = <<>> THEN S
    ELSE ord_touch_all_rereading(ord_touch(S, c, Head(ps), t), c, Tail(ps), t + 1)

ord_touch_key_rereading(S, c, k) ==
    [s |-> ord_touch_all_rereading(S, c, ord_equal_range(S, c, k), now[S.clock[c]]),
     n |-> Len(ord_equal_range(S, c, k))]

\* touch (K const& k): every element of equal_range (k), one clock reading
ord_touch_key(S, c, k) ==
    [s |-> ord_touch_all(S, c, ord_equal_range(S, c, k), now[S.clock[c]]),
     n |-> Len(ord_equal_range(S, c, k))]

RECURSIVE delete_all(_, _)
delete_all(S, ps) ==
    IF ps = <<>> THEN S ELSE delete_all(delete_element(S, Head(ps)), Tail(ps))

\* clear: delete_element along the list, then both containers are cleared
ord_clear(S, c) ==
    [delete_all(S, S.list[c]) EXCEPT !.list[c] = <<>>, !.tree[c] = <<>>]

\* the values of [begin(), end()) in associative order
ValueOf(S, p) == [key |-> S.elem[p].key, mapped |-> S.elem[p].mapped]
ord_values(S, c) == [i \in 1..Len(S.tree[c]) |-> ValueOf(S, S.tree[c][i])]

\* insert (other.cbegin(), other.cend())
ord_insert_from_shared(S, c, other) ==
    [S EXCEPT !.list[c] = S.list[other], !.tree[c] = S.tree[other]]

ord_insert_from(S, c, other) == ord_insert_range(S, c, ord_values(S, other))

\* a copy that goes along the chronological list of the source
ord_assign_copy_chronological(S, c, other) ==
    IF c = other THEN S
    ELSE ord_insert_range(config_assign(ord_clear(S, c), c, other), c,
                          [i \in 1..Len(S.list[other]) |-> ValueOf(S, S.list[other][i])])

\* operator= (aged_ordered_container const&)
ord_assign_copy(S, c, other) ==
    IF c = other THEN S
    ELSE ord_insert_from(config_assign(ord_clear(S, c), c, other), c, other)

\* operator= (aged_ordered_container&&)
ord_assign_move(S, c, other) ==
    ord_clear(ord_insert_from(config_assign(ord_clear(S, c), c, other), c, other),
              other)

\* operator= (std::initializer_list <value_type>)
ord_assign_init(S, c, vs) == ord_insert_range(ord_clear(S, c), c, vs)

\* swap: swap_data, then the lists, then the indices
ord_swap_index_only(S, c, other) ==
    [swap_data(S, c, other)
        EXCEPT !.tree[c] = S.tree[other], !.tree[other] = S.tree[c]]

ord_swap(S, c, other) ==
    [swap_data(S, c, other)
        EXCEPT !.list[c] = S.list[other], !.list[other] = S.list[c],
               !.tree[c] = S.tree[other], !.tree[other] = S.tree[c]]

\* ======================================================================
\* aged_unordered_container
\* ======================================================================

\* std::hash <Key> on an integral key
Hash(k) == k

\* std::equal_to <Key>
KeyEqual(k1, k2) == k1 = k2

\* cont_type::suggested_upper_bucket_count: the first prime of the table
\* that is not less than n
PrimeList == <<3, 7, 11, 17, 29>>
suggested_upper_bucket_count(n) ==
    LET I == {i \in 1..Len(PrimeList) : PrimeList[i] >= n}
    IN  IF I = {} THEN PrimeList[Len(PrimeList)] ELSE PrimeList[Min(I)]

\* a bucket array no container refers to any more can be handed out again
UsedVecs(S) == {S.m_buck[c].vec : c \in Cont} \cup {S.table[c].arr : c \in Cont}
NewVec(S) == Min(VecIds \ UsedVecs(S))

EmptyBuckets(n) == [i \in 1..n |-> <<>>]

\* a vector of n value-initialized buckets in new storage
vec_new(S, v, n) ==
    [S EXCEPT !.vecs[v] = [alive |-> TRUE, cap |-> n, b |-> EmptyBuckets(n)]]

uno_size(S, c) == S.table[c].size
uno_bucket_count(S, c) == S.table[c].cnt
uno_max_load_factor(S, c) == S.m_buck[c].mlf

\* the bucket array m_cont works on, as far as m_cont knows its length
uno_buckets(S, c) ==
    [i \in 1..S.table[c].cnt |->
        IF i <= Len(S.vecs[S.table[c].arr].b) THEN S.vecs[S.table[c].arr].b[i] ELSE <<>>]

RECURSIVE Flatten(_)
Flatten(ss) == IF ss = <<>> THEN <<>> ELSE Head(ss) \o Flatten(Tail(ss))

\* [begin(), end()): the buckets in order, each from its front
uno_iter(S, c) == Flatten(uno_buckets(S, c))

\* every use of the buckets reads the array m_cont points to; reading an
\* array that was deallocated is undefined
uno_access(S, c) ==
    IF S.vecs[S.table[c].arr].alive THEN S ELSE [S EXCEPT !.ub = TRUE]

\* the bucket of a key; with no bucket the remainder is undefined
uno_bucket(S, c, k) ==
    IF S.table[c].cnt = 0 THEN 0 ELSE (Hash(k) % S.table[c].cnt) + 1

uno_chain(S, c, k) ==
    IF uno_bucket(S, c, k) = 0 THEN <<>> ELSE uno_buckets(S, c)[uno_bucket(S, c, k)]

\* m_cont.equal_range: the elements of the bucket with an equal key
uno_equal_range(S, c, k) ==
    SelectSeq(uno_chain(S, c, k), LAMBDA p : KeyEqual(k, extract(S, p)))

\* m_cont.find: the first element of the bucket with an equal key
uno_find(S, c, k) ==
    IF uno_equal_range(S, c, k) = <<>> THEN End ELSE Head(uno_equal_range(S, c, k))

uno_count(S, c, k) == Len(uno_equal_range(S, c, k))

\* ++iter
uno_next(S, c, p) ==
    LET i == IndexOf(uno_iter(S, c), p)
    IN  IF i < Len(uno_iter(S, c)) THEN uno_iter(S, c)[i + 1] ELSE End

SetBucket(S, c, i, ch) ==
    [S EXCEPT !.vecs[S.table[c].arr].b[i] = ch]

\* m_cont.insert_commit: the element goes to the front of its bucket
uno_insert_commit(S, c, p) ==
    LET i == uno_bucket(S, c, extract(S, p))
    IN  IF i = 0 THEN [S EXCEPT !.fatal = TRUE]
        ELSE [SetBucket(S, c, i, <<p>> \o uno_buckets(S, c)[i])
                 EXCEPT !.table[c].size = @ + 1]

\* where an element with the key of p goes in the chain ch: after the
\* first element with an equal key, or at the front when there is none
EqualPos(S, ch, p) ==
    LET I == {j \in 1..Len(ch) : KeyEqual(extract(S, p), extract(S, ch[j]))}
    IN  IF I = {} THEN 1 ELSE Min(I) + 1

\* m_cont.insert (multi)
uno_insert_equal(S, c, p) ==
    LET i == uno_bucket(S, c, extract(S, p))
    IN  IF i = 0 THEN [S EXCEPT !.fatal = TRUE]
        ELSE [SetBucket(S, c, i,
                        SeqInsertBefore(uno_buckets(S, c)[i],
                                        EqualPos(S, uno_buckets(S, c)[i], p), p))
                 EXCEPT !.table[c].size = @ + 1]

\* the buckets of m_cont that hold p
BucketsOf(S, c, p) ==
    {i \in 1..S.table[c].cnt : p \in SeqSet(uno_buckets(S, c)[i])}

\* m_cont.erase (iterator_to (*p)): the element is unlinked from the chain
\* of its bucket; an element that is in no chain of m_cont has no
\* predecessor to be found
uno_unlink(S, c, p) ==
    IF BucketsOf(S, c, p) = {} THEN [S EXCEPT !.fatal = TRUE]
    ELSE [SetBucket(S, c, Min(BucketsOf(S, c, p)),
                    SeqRemove(uno_buckets(S, c)[Min(BucketsOf(S, c, p))], p))
             EXCEPT !.table[c].size = @ - 1]

uno_unlink_and_delete_element(S, c, p) ==
    delete_element(uno_unlink(list_erase(S, p), c, p), p)

\* the last position of the run of equal keys that starts at position i
RunEnd(S, ch, i) ==
    Max({j \in i..Len(ch) :
            \A m \in i..j : KeyEqual(extract(S, ch[i]), extract(S, ch[m]))})

\* maximal runs of equal keys of a chain, from position i on
RECURSIVE RunsFrom(_, _, _)
RunsFrom(S, ch, i) ==
    IF i > Len(ch) THEN <<>>
    ELSE <<SubSeq(ch, i, RunEnd(S, ch, i))>> \o RunsFrom(S, ch, RunEnd(S, ch, i) + 1)

\* the units hashtable::rehash moves out of bucket i: the whole bucket when
\* the new length divides the old one, runs of equal keys otherwise
BucketUnits(S, B, i, fast) ==
    IF fast
    THEN (IF B[i] = <<>> THEN <<>> ELSE <<[from |-> i, u |-> B[i]]>>)
    ELSE [j \in 1..Len(RunsFrom(S, B[i], 1)) |->
             [from |-> i, u |-> RunsFrom(S, B[i], 1)[j]]]

\* all units in the order rehash visits them
RehashUnits(S, B, fast) == Flatten([i \in 1..Len(B) |-> BucketUnits(S, B, i, fast)])

\* the new bucket of a unit
rehash_target(S, count, fast, u) ==
    IF fast THEN ((u.from - 1) % count) + 1
    ELSE (Hash(extract(S, u.u[1])) % count) + 1

RECURSIVE SpliceFront(_, _)
SpliceFront(units, acc) ==
    IF units = <<>> THEN acc ELSE SpliceFront(Tail(units), Head(units).u \o acc)

\* bucket j after the rehash: the units moved to it are spliced at its
\* front one after the other; in the same array the elements that are
\* already in their bucket are not moved
rehash_bucket(S, B, same, count, fast, units, j) ==
    SpliceFront(
        SelectSeq(units, LAMBDA u :
            rehash_target(S, count, fast, u) = j /\ ~(same /\ u.from = j)),
        IF same /\ j <= Len(B)
        THEN SelectSeq(B[j], LAMBDA p :
                 \E k \in 1..Len(units) :
                     /\ p \in SeqSet(units[k].u)
                     /\ rehash_target(S, count, fast, units[k]) = j)
        ELSE <<>>)

\* the arrays after every element was moved from the old buckets B of
\* m_cont to the count buckets of arr
rehash_move(S, c, arr, count, fast, B, units) ==
    [S EXCEPT
        !.vecs = [v \in VecIds |->
            IF v = arr
            THEN [S.vecs[v] EXCEPT !.b = [i \in 1..Len(S.vecs[v].b) |->
                     IF i <= count
                     THEN rehash_bucket(S, B, S.table[c].arr = arr, count, fast, units, i)
                     ELSE IF S.table[c].arr = arr /\ i <= S.table[c].cnt THEN <<>>
                     ELSE S.vecs[v].b[i]]]
            ELSE IF v = S.table[c].arr
            THEN [S.vecs[v] EXCEPT !.b = [i \in 1..Len(S.vecs[v].b) |->
                     IF i <= S.table[c].cnt THEN <<>> ELSE S.vecs[v].b[i]]]
            ELSE S.vecs[v]],
        !.table[c].arr = arr,
        !.table[c].cnt = count]

\* old_bucket_count % new_bucket_count == 0 selects the fast shrink
rehash_fast(S, c, count) ==
    S.table[c].cnt > count /\ S.table[c].cnt % count = 0

rehash_checked(S, c, arr, count) ==
    IF count = 0
    THEN \* the remainder by a length of zero is undefined
         [S EXCEPT !.ub = (S.table[c].cnt > 0) \/ @,
                   !.fatal = (uno_iter(S, c) # <<>>) \/ @,
                   !.table[c].arr = arr, !.table[c].cnt = 0]
    ELSE rehash_move(S, c, arr, count, rehash_fast(S, c, count), uno_buckets(S, c),
                     RehashUnits(S, uno_buckets(S, c), rehash_fast(S, c, count)))

\* m_cont.rehash (bucket_traits (&vec[0], count)): every element is moved
\* from the old buckets to the front of its new bucket; size is kept
hashtable_rehash(S, c, arr, count) == rehash_checked(uno_access(S, c), c, arr, count)

\* m_vec.resize (n) within the capacity: the buckets from the old size to
\* n are value-initialized, storage past n keeps what it held
vec_resize(S, c, n) ==
    [S EXCEPT !.vecs[S.m_buck[c].vec].b =
                  [i \in 1..Len(@) |->
                      IF i > S.m_buck[c].size /\ i <= n THEN <<>> ELSE @[i]],
              !.m_buck[c].size = n]

\* vec_type vec; std::swap (m_vec, vec); m_vec.resize (count)
vec_replace(S, c, v, count) ==
    [vec_new(S, v, count) EXCEPT !.m_buck[c].vec = v, !.m_buck[c].size = count]

\* the storage of a vector is deallocated
vec_free(S, v) == [S EXCEPT !.vecs[v].alive = FALSE]

\* Buckets::rehash (count, c)
Buckets_rehash(S, c, count) ==
    IF count = S.m_buck[c].size THEN S
    ELSE IF count > S.vecs[S.m_buck[c].vec].cap
    THEN \* a second vector; the old one dies when the call returns
         vec_free(hashtable_rehash(vec_replace(S, c, NewVec(S), count),
                                   c, NewVec(S), count),
                  S.m_buck[c].vec)
    ELSE IF count > S.m_buck[c].size
    THEN \* rehash in place: resize first
         hashtable_rehash(vec_resize(S, c, count), c, S.m_buck[c].vec, count)
    ELSE \* rehash in place: resize after the rehash
         vec_resize(hashtable_rehash(S, c, S.m_buck[c].vec, count), c, count)

\* Buckets::resize (n, c)
Buckets_resize(S, c, n) == Buckets_rehash(S, c, suggested_upper_bucket_count(n))

\* Buckets::clear: m_vec.clear() keeps the storage
Buckets_clear(S, c) == [S EXCEPT !.m_buck[c].size = 0]

\* m_buck = Buckets (m_config.alloc()): the vector m_buck held is
\* deallocated, the load factor limit is the one of a new Buckets
Buckets_assign(S, c) ==
    [vec_free(vec_new(S, NewVec(S), suggested_upper_bucket_count(0)), S.m_buck[c].vec)
        EXCEPT !.m_buck[c] = [mlf |-> InitialMaxLoadFactor * LFDen,
                              vec |-> NewVec(S),
                              size |-> suggested_upper_bucket_count(0)]]

\* would_exceed: size() + additional > bucket_count() * max_load_factor()
would_exceed(S, c, additional) ==
    (uno_size(S, c) + additional) * LFDen > uno_bucket_count(S, c) * uno_max_load_factor(S, c)

\* load_factor() <= max_load_factor(), false for x/0
load_factor_ok(S, c) ==
    /\ uno_bucket_count(S, c) # 0
    /\ uno_size(S, c) * LFDen <= uno_bucket_count(S, c) * uno_max_load_factor(S, c)

\* assert (load_factor() <= max_load_factor())
assert_load_factor(S, c) == [S EXCEPT !.asserted = @ /\ load_factor_ok(S, c)]

\* maybe_rehash
maybe_rehash_reordering(S, c, additional) ==
    assert_load_factor(
        IF would_exceed(S, c, additional)
        THEN [Buckets_resize(S, c, uno_size(S, c) + additional)
                 EXCEPT !.list[c] = [i \in 1..Len(@) |-> @[Len(@) + 1 - i]]]
        ELSE S,
        c)

maybe_rehash(S, c, additional) ==
    assert_load_factor(
        IF would_exceed(S, c, additional)
        THEN Buckets_resize(S, c, uno_size(S, c) + additional)
        ELSE S,
        c)

\* a probe hashes the key into the buckets m_cont points to
uno_probe(S, c) ==
    IF S.table[c].cnt = 0 THEN [uno_access(S, c) EXCEPT !.fatal = TRUE]
    ELSE uno_access(S, c)

\* new_element, chronological.list.push_back, m_cont.insert_commit
uno_link_new(S, c, v) ==
    uno_insert_commit(list_push_back(new_element(S, c, v), c, NewId(S)), c, NewId(S))

\* insert_unchecked after the probe of m_cont.insert_check
uno_insert_checked(S, c, v) ==
    IF uno_find(S, c, v.key) = End
    THEN [s |-> uno_link_new(S, c, v), it |-> NewId(S), ok |-> TRUE]
    ELSE [s |-> S, it |-> uno_find(S, c, v.key), ok |-> FALSE]

\* insert_unchecked (value_type const&), set and map
uno_insert_unchecked(S, c, v) == uno_insert_checked(uno_probe(S, c), c, v)

\* new_element, chronological.list.push_back, m_cont.insert
uno_link_new_multi(S, c, v) ==
    uno_insert_equal(list_push_back(new_element(S, c, v), c, NewId(S)), c, NewId(S))

\* insert_unchecked (value_type const&), multiset and multimap
uno_insert_unchecked_multi(S, c, v) ==
    [s |-> uno_link_new_multi(uno_probe(S, c), c, v), it |-> NewId(S), ok |-> TRUE]

\* insert (value_type const&), set and map
uno_insert(S, c, v) == uno_insert_unchecked(maybe_rehash(S, c, 1), c, v)

\* insert (value_type const&), multiset and multimap
uno_insert_multi(S, c, v) == uno_insert_unchecked_multi(maybe_rehash(S, c, 1), c, v)

\* insert (hint, value): the hint is ignored
uno_insert_any(S, c, hint, v) ==
    IF IsMulti THEN uno_insert_multi(S, c, v) ELSE uno_insert(S, c, v)

uno_insert_unchecked_any(S, c, v) ==
    IF IsMulti THEN uno_insert_unchecked_multi(S, c, v) ELSE uno_insert_unchecked(S, c, v)

\* insert_unchecked (InputIt first, InputIt last)
RECURSIVE uno_insert_unchecked_range(_, _, _)
uno_insert_unchecked_range(S, c, vs) ==
    IF vs = <<>> THEN S
    ELSE uno_insert_unchecked_range(uno_insert_unchecked_any(S, c, Head(vs)).s, c, Tail(vs))

\* insert (first, last, std::input_iterator_tag)
RECURSIVE uno_insert_input(_, _, _)
uno_insert_input(S, c, vs) ==
    IF vs = <<>> THEN S
    ELSE uno_insert_input(uno_insert_any(S, c, End, Head(vs)).s, c, Tail(vs))

\* insert (first, last, std::random_access_iterator_tag)
uno_insert_random(S, c, vs) ==
    uno_insert_unchecked_range(maybe_rehash(S, c, Len(vs)), c, vs)

\* emplace, set and map, after new_element and the probe
uno_emplace_checked(S, c, p) ==
    IF uno_find(S, c, extract(S, p)) = End
    THEN [s |-> uno_insert_commit(list_push_back(S, c, p), c, p), it |-> p, ok |-> TRUE]
    ELSE [s |-> delete_element(S, p), it |-> uno_find(S, c, extract(S, p)), ok |-> FALSE]

\* emplace, set and map, after maybe_rehash
uno_emplace_new(S, c, v) ==
    uno_emplace_checked(uno_probe(new_element(S, c, v), c), c, NewId(S))

\* emplace, set and map
uno_emplace(S, c, v) == uno_emplace_new(maybe_rehash(S, c, 1), c, v)

\* emplace, multiset and multimap
uno_emplace_multi(S, c, v) == uno_insert_unchecked_multi(maybe_rehash(S, c, 1), c, v)

\* emplace after maybe_rehash when a user operation throws: in new_element
\* ("construct"), or the hasher in insert_check or in insert ("compare");
\* multiset and multimap have pushed the element on the list by then
uno_emplace_throws_at(S, c, v, point) ==
    IF point = "construct" THEN new_element_throws(S, c)
    ELSE IF IsMulti THEN list_push_back(new_element(S, c, v), c, NewId(S))
    ELSE new_element(S, c, v)

uno_emplace_throws(S, c, v, point) ==
    uno_emplace_throws_at(maybe_rehash(S, c, 1), c, v, point)

uno_emplace_any(S, c, v) ==
    IF IsMulti THEN uno_emplace_multi(S, c, v) ELSE uno_emplace(S, c, v)

\* operator[] (Key const&)
uno_operator_index(S, c, k) ==
    uno_insert(S, c, [key |-> k, mapped |-> 0])

\* erase (pos)
uno_erase(S, c, p) ==
    [s |-> uno_unlink_and_delete_element(uno_access(S, c), c, p),
     it |-> uno_next(S, c, p)]

\* erase (first, last)
RECURSIVE uno_erase_range(_, _, _, _)
uno_erase_range(S, c, first, lst) ==
    IF first = lst THEN [s |-> uno_access(S, c), it |-> first]
    ELSE uno_erase_range(uno_unlink_and_delete_element(S, c, first), c,
                         uno_next(S, c, first), lst)

\* erase (K const& k): m_config (*p, key) is the equality of the two keys
RECURSIVE uno_erase_loop(_, _, _, _, _)
uno_erase_loop(S, c, p, n, garbage) ==
    LET iter == uno_next(S, c, p)
        done == IF iter = End THEN garbage
                ELSE KeyEqual(extract(S, p), extract(S, iter))
    IN  IF done
        THEN [s |-> uno_unlink_and_delete_element(S, c, p), n |-> n + 1,
              read_end |-> iter = End]
        ELSE IF iter = End
        THEN [s |-> [uno_unlink_and_delete_element(S, c, p) EXCEPT !.fatal = TRUE],
              n |-> n + 1, read_end |-> TRUE]
        ELSE uno_erase_loop(uno_unlink_and_delete_element(S, c, p), c, iter,
                            n + 1, garbage)

\* erase (K const& k) after the probe of m_cont.find
uno_erase_found(S, c, k, garbage) ==
    IF uno_find(S, c, k) = End THEN [s |-> S, n |-> 0, read_end |-> FALSE]
    ELSE uno_erase_loop(S, c, uno_find(S, c, k), 0, garbage)

uno_erase_key(S, c, k, garbage) == uno_erase_found(uno_probe(S, c), c, k, garbage)

\* touch (pos, now)
uno_touch_ahead(S, c, p, t) ==
    list_push_back(list_erase([S EXCEPT !.elem[p].when = t + 1], p), c, p)

uno_touch(S, c, p, t) ==
    list_push_back(list_erase([S EXCEPT !.elem[p].when = t], p), c, p)

RECURSIVE uno_touch_all(_, _, _, _)
uno_touch_all(S, c, ps, t) ==
    IF ps = <<>> THEN S
    ELSE uno_touch_all(uno_touch(S, c, Head(ps), t), c, Tail(ps), t)

\* touch (K const& k) after the probe of m_cont.equal_range
uno_touch_range(S, c, k) ==
    [s |-> uno_touch_all(S, c, uno_equal_range(S, c, k), now[S.clock[c]]),
     n |-> Len(uno_equal_range(S, c, k))]

\* touch (K const& k)
uno_touch_key(S, c, k) == uno_touch_range(uno_probe(S, c), c, k)

RECURSIVE uno_unlink_all(_, _, _)
uno_unlink_all(S, c, ps) ==
    IF ps = <<>> THEN S
    ELSE uno_unlink_all(uno_unlink_and_delete_element(S, c, Head(ps)), c, Tail(ps))

\* chronological.list.clear(); m_cont.clear(): the buckets m_cont points
\* to are emptied
cont_clear(S, c) ==
    [S EXCEPT !.list[c] = <<>>,
              !.vecs[S.table[c].arr].b =
                  [i \in 1..Len(@) |-> IF i <= S.table[c].cnt THEN <<>> ELSE @[i]],
              !.table[c].size = 0]

\* clear: unlink and delete along the list, then the list, m_cont and
\* m_buck are cleared
uno_clear(S, c) ==
    Buckets_clear(cont_clear(uno_unlink_all(uno_access(S, c), c, S.list[c]), c), c)

uno_values(S, c) ==
    [i \in 1..Len(uno_iter(S, c)) |-> ValueOf(S, uno_iter(S, c)[i])]

\* insert_unchecked (other.begin(), other.end())
uno_insert_from(S, c, other) ==
    uno_insert_unchecked_range(uno_access(S, other), c, uno_values(S, other))

\* operator= (aged_unordered_container const&)
uno_assign_copy(S, c, other) ==
    IF c = other THEN S
    ELSE uno_insert_from(
             maybe_rehash(Buckets_assign(config_assign(uno_clear(S, c), c, other), c),
                          c, uno_size(S, other)),
             c, other)

\* operator= (aged_unordered_container&&)
uno_assign_move(S, c, other) ==
    uno_clear(
        uno_insert_from(
            maybe_rehash(Buckets_assign(config_assign(uno_clear(S, c), c, other), c),
                         c, uno_size(S, other)),
            c, other),
        other)

\* operator= (std::initializer_list <value_type>)
uno_assign_init(S, c, vs) == uno_insert_random(uno_clear(S, c), c, vs)

\* swap: swap_data, the lists and m_cont; m_buck is not exchanged
uno_swap(S, c, other) ==
    [swap_data(S, c, other)
        EXCEPT !.list[c] = S.list[other], !.list[other] = S.list[c],
               !.table[c] = S.table[other], !.table[other] = S.table[c]]

\* max_load_factor (float ml)
uno_set_max_load_factor_plain(S, c, ml) ==
    [S EXCEPT !.m_buck[c].mlf = ml]

uno_set_max_load_factor(S, c, ml) ==
    [S EXCEPT !.m_buck[c].mlf = Max({ml, @})]

\* rehash (size_type count)
uno_rehash(S, c, count) ==
    Buckets_rehash(S, c, Max({count, (uno_size(S, c) * LFDen) \div uno_max_load_factor(S, c)}))

\* reserve (size_type count): rehash (std::ceil (count / max_load_factor()))
uno_reserve(S, c, count) ==
    uno_rehash(S, c, (count * LFDen + uno_max_load_factor(S, c) - 1) \div uno_max_load_factor(S, c))

\* ======================================================================
\* the public calls
\* ======================================================================

size(S, c) == IF IsUnordered THEN uno_size(S, c) ELSE ord_size(S, c)

\* [begin(), end()) of the associative index
assoc(S, c) == IF IsUnordered THEN uno_iter(S, c) ELSE S.tree[c]

count(S, c, k) == IF IsUnordered THEN uno_count(S, c, k) ELSE ord_count(S, c, k)

find(S, c, k) == IF IsUnordered THEN uno_find(S, c, k) ELSE ord_find(S, c, k)

insert(S, c, v) ==
    IF IsUnordered
    THEN (IF IsMulti THEN uno_insert_multi(S, c, v) ELSE uno_insert(S, c, v))
    ELSE (IF IsMulti THEN ord_insert_multi(S, c, v) ELSE ord_insert(S, c, v))

insert_hint(S, c, hint, v) ==
    IF IsUnordered THEN uno_insert_any(S, c, hint, v) ELSE ord_insert_any(S, c, hint, v)

insert_range(S, c, vs, random) ==
    IF IsUnordered
    THEN (IF random THEN uno_insert_random(S, c, vs) ELSE uno_insert_input(S, c, vs))
    ELSE ord_insert_range(S, c, vs)

emplace(S, c, v) ==
    IF IsUnordered THEN uno_emplace_any(S, c, v) ELSE ord_emplace_any(S, c, v)

\* emplace_hint; the unordered containers ignore the hint
emplace_hint(S, c, hint, v) ==
    IF IsUnordered THEN uno_emplace_any(S, c, v) ELSE ord_emplace_hint(S, c, hint, v)

operator_index(S, c, k) ==
    IF IsUnordered THEN uno_operator_index(S, c, k) ELSE ord_operator_index(S, c, k)

erase(S, c, p) == IF IsUnordered THEN uno_erase(S, c, p) ELSE ord_erase(S, c, p)

\* ++iter of a chronological iterator
list_next(S, c, p) ==
    IF IndexOf(S.list[c], p) < Len(S.list[c])
    THEN S.list[c][IndexOf(S.list[c], p) + 1] ELSE End

\* erase (pos) with a chronological iterator: the iterator is advanced in
\* the list, then unlink_and_delete_element
erase_chronological(S, c, p) ==
    [s |-> IF IsUnordered THEN uno_unlink_and_delete_element(uno_access(S, c), c, p)
                          ELSE ord_unlink_and_delete_element(S, c, p),
     it |-> list_next(S, c, p)]

\* erase (chronological.begin()); begin() of an empty list is end() and
\* is not an element
erase_oldest(S, c) ==
    IF S.list[c] = <<>> THEN [s |-> [S EXCEPT !.fatal = TRUE], it |-> End]
    ELSE erase_chronological(S, c, Head(S.list[c]))

\* the caller's loop: while (size() > n) erase (chronological.begin())
RECURSIVE evict(_, _, _)
evict(S, c, n) ==
    IF S.fatal \/ size(S, c) <= n THEN S
    ELSE evict(erase_oldest(S, c).s, c, n)

erase_range(S, c, first, lst) ==
    IF IsUnordered THEN uno_erase_range(S, c, first, lst) ELSE ord_erase_range(S, c, first, lst)

erase_key(S, c, k, garbage) ==
    IF IsUnordered THEN uno_erase_key(S, c, k, garbage) ELSE ord_erase_key(S, c, k, garbage)

\* at (K const& k): m_cont.find, then throw std::out_of_range at end();
\* ok tells that the call returned a reference, it is the node found
ord_at_key(S, c, k) ==
    [s |-> S, it |-> ord_find(S, c, k), ok |-> ord_find(S, c, k) # End]

uno_at_key(S, c, k) ==
    [s |-> uno_probe(S, c), it |-> uno_find(S, c, k), ok |-> uno_find(S, c, k) # End]

at(S, c, k) == IF IsUnordered THEN uno_at_key(S, c, k) ELSE ord_at_key(S, c, k)

\* touch (pos): touch (pos, clock().now())
touch(S, c, p) ==
    IF IsUnordered THEN uno_touch(S, c, p, now[S.clock[c]])
    ELSE ord_touch(S, c, p, now[S.clock[c]])

touch_key(S, c, k) == IF IsUnordered THEN uno_touch_key(S, c, k) ELSE ord_touch_key(S, c, k)

\* a lookup of the unordered containers hashes the key into the buckets
lookup_probe(S, c) == IF IsUnordered THEN uno_probe(S, c) ELSE S

\* a find that refreshes the node it finds
find_key_touching(S, c, k) ==
    [s |-> IF find(S, c, k) = End THEN lookup_probe(S, c)
           ELSE touch(lookup_probe(S, c), c, find(S, c, k)),
     it |-> find(S, c, k), ok |-> find(S, c, k) # End]

\* find (k): iterator (m_cont.find (k))
find_key(S, c, k) ==
    [s |-> lookup_probe(S, c), it |-> find(S, c, k), ok |-> find(S, c, k) # End]

\* count (k): m_cont.count (k)
count_key(S, c, k) == [s |-> lookup_probe(S, c), n |-> count(S, c, k)]

\* equal_range (k): the first position of m_cont.equal_range (k) and the
\* length of the range
equal_range(S, c, k) ==
    IF IsUnordered
    THEN [s |-> uno_probe(S, c), it |-> uno_find(S, c, k), n |-> uno_count(S, c, k)]
    ELSE [s |-> S, it |-> ord_at(S, c, ord_lower_bound(S, c, k)),
          n |-> ord_upper_bound(S, c, k) - ord_lower_bound(S, c, k)]

\* lower_bound (k), upper_bound (k) of the ordered containers
lower_bound(S, c, k) == [s |-> S, it |-> ord_at(S, c, ord_lower_bound(S, c, k)), ok |-> TRUE]

upper_bound(S, c, k) == [s |-> S, it |-> ord_at(S, c, ord_upper_bound(S, c, k)), ok |-> TRUE]

clear(S, c) == IF IsUnordered THEN uno_clear(S, c) ELSE ord_clear(S, c)

\* the destructor is clear()
destroy(S, c) == clear(S, c)

assign_copy(S, c, other) ==
    IF IsUnordered THEN uno_assign_copy(S, c, other) ELSE ord_assign_copy(S, c, other)

assign_move(S, c, other) ==
    IF IsUnordered THEN uno_assign_move(S, c, other) ELSE ord_assign_move(S, c, other)

assign_init(S, c, vs) ==
    IF IsUnordered THEN uno_assign_init(S, c, vs) ELSE ord_assign_init(S, c, vs)

swap(S, c, other) == IF IsUnordered THEN uno_swap(S, c, other) ELSE ord_swap(S, c, other)

\* the arguments the calls are tried with
Ranges == UNION {[1..n -> [key : Keys, mapped : {0}]] : n \in 0..MaxRange}
Counts == 0..MaxCount
LoadFactors == {1, 4}
Positions(c) == SeqSet(assoc(State, c))
\* the hints tried: every position and end()
Hints(c) == {End} \cup SeqSet(assoc(State, c))

NoCall ==
    [op |-> "none", c |-> "a", k |-> 0, p |-> End, it |-> End, ok |-> FALSE, n |-> 0,
     crash |-> FALSE, allocs |-> 0, frees |-> 0, asserted |-> TRUE]

\* a call returns with the state S, or the undefined behaviour met on the
\* way (u: it was fatal) ends the process
Commit(op, c, k, p, S, it, ok, n, u) ==
    /\ calls' = calls + 1
    /\ crashed' = (S.fatal \/ (S.ub /\ u))
    /\ call' = IF S.fatal \/ (S.ub /\ u)
               THEN [NoCall EXCEPT !.op = op, !.c = c, !.k = k, !.p = p, !.crash = TRUE]
               ELSE [op |-> op, c |-> c, k |-> k, p |-> p, it |-> it, ok |-> ok, n |-> n,
                     crash |-> FALSE, allocs |-> S.allocs, frees |-> S.frees,
                     asserted |-> S.asserted]
    /\ IF S.fatal \/ (S.ub /\ u)
       THEN UNCHANGED <<elem, list, tree, table, m_buck, vecs, clock, alloc>>
       ELSE /\ alloc' = S.alloc
            /\ elem' = S.elem
            /\ list' = S.list
            /\ tree' = S.tree
            /\ table' = S.table
            /\ m_buck' = S.m_buck
            /\ vecs' = [v \in VecIds |-> IF v \in UsedVecs(S) THEN S.vecs[v] ELSE NoVec]
            /\ clock' = S.clock
    /\ UNCHANGED <<variant, now>>

\* the outcomes of a call: undefined behaviour may or may not be fatal
Outcomes(S) == IF S.ub /\ ~S.fatal THEN BOOLEAN ELSE {FALSE}

\* a call that returns [s, it, ok]
Returns(op, c, k, r) ==
    \E u \in Outcomes(r.s) : Commit(op, c, k, End, r.s, r.it, r.ok, 0, u)

\* a call that returns [s, n]
ReturnsCount(op, c, k, r) ==
    \E u \in Outcomes(r.s) : Commit(op, c, k, End, r.s, End, TRUE, r.n, u)

\* a call that returns nothing
ReturnsVoid(op, c, k, s) ==
    \E u \in Outcomes(s) : Commit(op, c, k, End, s, End, TRUE, 0, u)

CanAlloc(n) == Cardinality(FreeIds(State)) >= n

\* another public call can be made
CanCall == ~crashed /\ calls < MaxCalls

Insert(c) ==
    /\ CanCall /\ CanAlloc(1)
    /\ \E v \in Values : \E r \in {insert(State, c, v)} :
           Returns("insert", c, v.key, r)

InsertHint(c) ==
    /\ CanCall /\ CanAlloc(1)
    /\ \E v \in Values, hint \in Hints(c) :
         \E r \in {insert_hint(State, c, hint, v)} :
           Returns("insert_hint", c, v.key, r)

InsertRange(c) ==
    /\ CanCall
    /\ \E vs \in Ranges, random \in (IF IsUnordered THEN BOOLEAN ELSE {FALSE}) :
         /\ CanAlloc(Len(vs))
         /\ \E s \in {insert_range(State, c, vs, random)} :
              ReturnsVoid(IF random THEN "insert_random" ELSE "insert_range", c, 0, s)

Emplace(c) ==
    /\ CanCall /\ CanAlloc(1)
    /\ \E v \in Values : \E r \in {emplace(State, c, v)} :
           Returns("emplace", c, v.key, r)

\* emplace left by an exception of a user operation
EmplaceThrows(c) ==
    /\ CanCall /\ CanAlloc(1)
    /\ \E v \in Values, point \in {"construct", "compare"} :
         \E s \in {IF IsUnordered THEN uno_emplace_throws(State, c, v, point)
                                  ELSE ord_emplace_throws(State, c, v, point)} :
           ReturnsVoid("emplace_throws", c, v.key, s)

EmplaceHint(c) ==
    /\ CanCall /\ CanAlloc(1)
    /\ \E v \in Values, hint \in Hints(c) :
         \E r \in {emplace_hint(State, c, hint, v)} :
           Returns("emplace_hint", c, v.key, r)

OperatorIndex(c) ==
    /\ CanCall /\ CanAlloc(1)
    /\ ~IsMulti
    /\ \E k \in Keys : \E r \in {operator_index(State, c, k)} :
           Returns("operator_index", c, k, r)

Erase(c) ==
    /\ CanCall
    /\ \E p \in Positions(c) : \E r \in {erase(State, c, p)} :
         \E u \in Outcomes(r.s) : Commit("erase", c, 0, p, r.s, r.it, TRUE, 1, u)

\* one turn of the eviction loop
EraseOldest(c) ==
    /\ CanCall
    /\ size(State, c) > 0
    /\ \E r \in {erase_oldest(State, c)} :
         \E u \in Outcomes(r.s) :
           Commit("erase_oldest", c, 0, IF list[c] = <<>> THEN End ELSE Head(list[c]),
                  r.s, r.it, TRUE, 1, u)

EraseRange(c) ==
    /\ CanCall
    /\ \E a \in {assoc(State, c) \o <<End>>} :
         \E i \in 1..Len(a) : \E j \in i..Len(a) :
           \E r \in {erase_range(State, c, a[i], a[j])} :
             \E u \in Outcomes(r.s) :
               Commit("erase_range", c, 0, a[i], r.s, r.it, TRUE, j - i, u)

EraseKey(c) ==
    /\ CanCall
    /\ \E k \in Keys, garbage \in BOOLEAN :
         \E r \in {erase_key(State, c, k, garbage)} :
           ReturnsCount("erase_key", c, k, r)

Touch(c) ==
    /\ CanCall
    /\ \E p \in Positions(c) : \E s \in {touch(State, c, p)} :
         \E u \in Outcomes(s) : Commit("touch", c, 0, p, s, End, TRUE, 1, u)

\* c [k] = 1: the caller writes through the reference operator[] returned
WriteMapped(c) ==
    /\ ~crashed
    /\ call.op = "operator_index" /\ ~call.crash /\ call.c = c
    /\ elem' = [elem EXCEPT ![call.it].mapped = 1]
    /\ call' = [call EXCEPT !.op = "write"]
    /\ UNCHANGED <<variant, now, list, tree, table, m_buck, vecs, clock, alloc, crashed, calls>>

At(c) ==
    /\ CanCall
    /\ ~IsMulti
    /\ \E k \in Keys : \E r \in {at(State, c, k)} : Returns("at", c, k, r)

Find(c) ==
    /\ CanCall
    /\ \E k \in Keys : \E r \in {find_key(State, c, k)} : Returns("find", c, k, r)

Count(c) ==
    /\ CanCall
    /\ \E k \in Keys : \E r \in {count_key(State, c, k)} : ReturnsCount("count", c, k, r)

EqualRange(c) ==
    /\ CanCall
    /\ \E k \in Keys : \E r \in {equal_range(State, c, k)} :
         \E u \in Outcomes(r.s) : Commit("equal_range", c, k, End, r.s, r.it, TRUE, r.n, u)

LowerBound(c) ==
    /\ CanCall /\ ~IsUnordered
    /\ \E k \in Keys : \E r \in {lower_bound(State, c, k)} : Returns("lower_bound", c, k, r)

UpperBound(c) ==
    /\ CanCall /\ ~IsUnordered
    /\ \E k \in Keys : \E r \in {upper_bound(State, c, k)} : Returns("upper_bound", c, k, r)

TouchKey(c) ==
    /\ CanCall
    /\ \E k \in Keys : \E r \in {touch_key(State, c, k)} :
           ReturnsCount("touch_key", c, k, r)

Clear(c) ==
    /\ CanCall
    /\ \E s \in {clear(State, c)} : ReturnsVoid("clear", c, 0, s)

AssignCopy(c) ==
    /\ CanCall
    /\ Cardinality(FreeIds(State)) + Len(list[c]) >= size(State, Other(c))
    /\ \E s \in {assign_copy(State, c, Other(c))} : ReturnsVoid("assign_copy", c, 0, s)

AssignMove(c) ==
    /\ CanCall
    /\ Cardinality(FreeIds(State)) + Len(list[c]) >= size(State, Other(c))
    /\ \E s \in {assign_move(State, c, Other(c))} : ReturnsVoid("assign_move", c, 0, s)

AssignInit(c) ==
    /\ CanCall
    /\ \E vs \in Ranges :
         /\ Cardinality(FreeIds(State)) + Len(list[c]) >= Len(vs)
         /\ \E s \in {assign_init(State, c, vs)} : ReturnsVoid("assign_init", c, 0, s)

Swap ==
    /\ CanCall
    /\ \E s \in {swap(State, "a", "b")} : ReturnsVoid("swap", "a", 0, s)

MaxLoadFactor(c) ==
    /\ CanCall /\ IsUnordered
    /\ \E ml \in LoadFactors : \E s \in {uno_set_max_load_factor(State, c, ml)} :
           ReturnsVoid("max_load_factor", c, ml, s)

Rehash(c) ==
    /\ CanCall /\ IsUnordered
    /\ \E n \in Counts : \E s \in {uno_rehash(State, c, n)} :
           ReturnsVoid("rehash", c, n, s)

Reserve(c) ==
    /\ CanCall /\ IsUnordered
    /\ \E n \in Counts : \E s \in {uno_reserve(State, c, n)} :
           ReturnsVoid("reserve", c, n, s)

\* the manual clock k is advanced by its owner
Advance(k) ==
    /\ ~crashed
    /\ now[k] < MaxTime
    /\ now' = [now EXCEPT ![k] = @ + 1]
    /\ UNCHANGED <<variant, elem, list, tree, table, m_buck, vecs, clock, alloc, crashed,
                   call, calls>>

\* the members of two containers after construction
Constructed ==
    /\ now = [k \in Clocks |-> 0]
    /\ elem = [p \in NodeIds |-> NoElem]
    /\ list = [c \in Cont |-> <<>>]
    /\ tree = [c \in Cont |-> <<>>]
    /\ vecs = [v \in VecIds |->
                 IF variant.unordered /\ v \in {1, 2}
                 THEN [alive |-> TRUE, cap |-> suggested_upper_bucket_count(0),
                       b |-> EmptyBuckets(suggested_upper_bucket_count(0))]
                 ELSE NoVec]
    /\ table = [c \in Cont |->
                 [arr |-> IF c = "a" THEN 1 ELSE 2,
                  cnt |-> IF variant.unordered THEN suggested_upper_bucket_count(0) ELSE 0,
                  size |-> 0]]
    /\ m_buck = [c \in Cont |->
                 [mlf |-> InitialMaxLoadFactor * LFDen,
                  vec |-> IF c = "a" THEN 1 ELSE 2,
                  size |-> IF variant.unordered THEN suggested_upper_bucket_count(0) ELSE 0]]
    /\ clock = [c \in Cont |-> IF c = "a" THEN 1 ELSE 2]
    /\ crashed = FALSE
    /\ call = NoCall
    /\ calls = 0

\* std::allocator: every instance is equal to every other, and
\* propagate_on_container_swap is false
Init ==
    /\ variant \in [unordered : BOOLEAN, multi : BOOLEAN, propagate : {FALSE}]
    /\ alloc = [c \in Cont |-> 0]
    /\ Constructed

\* "a" is the container the calls are made on; "b" is the other operand of
\* assignment and swap, filled by range insertion.  The clock of "a"
\* advances, the clock of "b" stands still.
Next ==
    \/ Insert("a")
    \/ InsertHint("a")
    \/ \E c \in Cont : InsertRange(c)
    \/ Emplace("a")
    \/ EmplaceHint("a")
    \/ OperatorIndex("a")
    \/ WriteMapped("a")
    \/ At("a")
    \/ Erase("a")
    \/ EraseOldest("a")
    \/ EraseRange("a")
    \/ EraseKey("a")
    \/ Touch("a")
    \/ TouchKey("a")
    \/ Clear("a")
    \/ \E c \in Cont : AssignCopy(c)
    \/ \E c \in Cont : AssignMove(c)
    \/ AssignInit("a")
    \/ Swap
    \/ MaxLoadFactor("a")
    \/ Rehash("a")
    \/ Reserve("a")
    \/ Advance(1)

Spec == Init /\ [][Next]_vars

\* the insertion calls, with user operations that may throw
NextThrow ==
    \/ Insert("a")
    \/ InsertHint("a")
    \/ Emplace("a")
    \/ EmplaceHint("a")
    \/ OperatorIndex("a")
    \/ EmplaceThrows("a")
    \/ Erase("a")
    \/ Advance(1)

SpecThrow == Init /\ [][NextThrow]_vars

\* the lookups, among the calls that fill, refresh and empty a container
NextLookup ==
    \/ Insert("a")
    \/ InsertRange("a")
    \/ Erase("a")
    \/ Touch("a")
    \/ TouchKey("a")
    \/ Clear("a")
    \/ Rehash("a")
    \/ At("a")
    \/ Find("a")
    \/ Count("a")
    \/ EqualRange("a")
    \/ LowerBound("a")
    \/ UpperBound("a")
    \/ Advance(1)

SpecLookup == Init /\ [][NextLookup]_vars

\* an allocator with state: the containers are constructed with two
\* instances that are not equal, and propagate_on_container_swap is
\* either way
InitSwap ==
    /\ variant \in [unordered : BOOLEAN, multi : BOOLEAN, propagate : BOOLEAN]
    /\ alloc = [c \in Cont |-> IF c = "a" THEN 1 ELSE 2]
    /\ Constructed

\* the calls that allocate, exchange and deallocate nodes
NextSwap ==
    \/ Insert("a")
    \/ \E c \in Cont : InsertRange(c)
    \/ Swap
    \/ Erase("a")
    \/ EraseKey("a")
    \/ Clear("a")

SpecSwap == InitSwap /\ [][NextSwap]_vars

\* ======================================================================
\* the properties
\* ======================================================================

\* the program state after the step
StateNew ==
    [elem |-> elem', list |-> list', tree |-> tree', table |-> table',
     m_buck |-> m_buck', vecs |-> vecs', clock |-> clock', alloc |-> alloc',
     ub |-> FALSE, fatal |-> FALSE, asserted |-> TRUE, allocs |-> 0, frees |-> 0]

\* the step is a public call that returned
Step == calls' = calls + 1 /\ ~call'.crash
\* the last public call returned
Returned == call.op # "none" /\ ~call.crash

NoDup(s) == \A i, j \in 1..Len(s) : s[i] = s[j] => i = j
Last(s) == s[Len(s)]
\* the nodes of the chronological list, the nodes with a key equivalent to k
Stored(c) == SeqSet(list[c])
KeyNodes(c, k) == {p \in Stored(c) : KeyEqual(elem[p].key, k)}
Without(s, P) == SelectSeq(s, LAMBDA p : p \notin P)
InsertOps == {"insert", "insert_hint", "emplace", "emplace_hint", "operator_index"}
GrowOps == InsertOps \cup {"insert_range", "insert_random", "assign_copy", "assign_move"}

\* C1: after any sequence of public mutating calls the associative index
\* and the chronological list link the same nodes, each node once, and
\* size() is the length of the chronological list.
C1_IndicesAgree ==
    \A c \in Cont :
        /\ SeqSet(assoc(State, c)) = Stored(c)
        /\ NoDup(assoc(State, c))
        /\ NoDup(list[c])
        /\ size(State, c) = Len(list[c])

\* C2: after insert, emplace, emplace_hint or operator[] added a node, and
\* after touch (iterator), that node is the last of the chronological list.
C2_AffectedNodeIsNewest ==
    /\ (Returned /\ call.op \in InsertOps /\ call.ok)
          => (list[call.c] # <<>> /\ Last(list[call.c]) = call.it)
    /\ (Returned /\ call.op = "touch")
          => (list[call.c] # <<>> /\ Last(list[call.c]) = call.p)

\* a node that was not the newest was touched, and a node was inserted
\* behind an older one
C2_Witness ==
    /\ Returned
    /\ Len(list[call.c]) >= 2
    /\ \/ call.op = "touch" /\ assoc(State, call.c)[1] = call.p
                            /\ Last(list[call.c]) = call.p
       \/ call.op = "emplace_hint" /\ call.ok /\ Last(list[call.c]) = call.it

\* C3: the clocks never go back, and after every public call (the ones
\* that rebind the clock included) the chronological list is
\* non-decreasing in when.
C3_ChronologicalSorted ==
    \A c \in Cont : \A i, j \in 1..Len(list[c]) :
        i < j => elem[list[c][i]].when <= elem[list[c][j]].when

\* a container that an assignment bound to the other container's clock
\* holds nodes stamped at different times
C3_Witness ==
    /\ Returned
    /\ call.op \in {"insert_range", "insert_random"}
    /\ call.c = "b"
    /\ clock["b"] = 1
    /\ Len(list["b"]) >= 2
    /\ elem[list["b"][1]].when < elem[Last(list["b"])].when

\* C4: in a unique variant no two distinct stored nodes have equivalent keys.
C4_UniqueKeys ==
    ~IsMulti =>
        \A c \in Cont : \A p, q \in Stored(c) :
            KeyEqual(elem[p].key, elem[q].key) => p = q

\* C5: in a unique variant insert (v) with the key of v present returns
\* (the existing node, false) and leaves size(), the chronological order
\* and every node's when and value as they were.
C5_InsertPresentKey ==
    [][(Step /\ ~IsMulti /\ call'.op = "insert" /\ find(State, call'.c, call'.k) # End)
          => /\ call'.ok = FALSE
             /\ call'.it = find(State, call'.c, call'.k)
             /\ size(StateNew, call'.c) = size(State, call'.c)
             /\ list' = list
             /\ elem' = elem]_vars

\* C6: erase (k) returns the number of nodes with a key equivalent to k,
\* removes exactly those nodes from both indices and no other node.
C6_EraseKey ==
    [][(Step /\ call'.op = "erase_key")
          => /\ call'.n = Cardinality(KeyNodes(call'.c, call'.k))
             /\ list'[call'.c] = Without(list[call'.c], KeyNodes(call'.c, call'.k))
             /\ assoc(StateNew, call'.c) = Without(assoc(State, call'.c), KeyNodes(call'.c, call'.k))
             /\ list'[Other(call'.c)] = list[Other(call'.c)]]_vars

\* C7: touch (iterator) sets the node's when to the clock's reading, moves
\* the node to the end of the chronological list and changes nothing else:
\* size(), the associative traversal, the other nodes' when and their
\* relative chronological order stay.
C7_TouchIterator ==
    [][(Step /\ call'.op = "touch")
          => /\ elem' = [elem EXCEPT ![call'.p].when = now[clock[call'.c]]]
             /\ list'[call'.c] = Append(Without(list[call'.c], {call'.p}), call'.p)
             /\ list'[Other(call'.c)] = list[Other(call'.c)]
             /\ assoc(StateNew, call'.c) = assoc(State, call'.c)
             /\ assoc(StateNew, Other(call'.c)) = assoc(State, Other(call'.c))
             /\ size(StateNew, call'.c) = size(State, call'.c)]_vars

\* an old node that is neither the newest nor alone was touched after the
\* clock advanced
C7_Witness ==
    /\ Returned
    /\ call.op = "touch"
    /\ Len(list[call.c]) >= 2
    /\ elem[call.p].when = 1
    /\ elem[list[call.c][1]].when = 0
    /\ assoc(State, call.c)[1] = call.p

\* C8: touch (k) touches every node with a key equivalent to k and no
\* other node, and returns count (k); with no such node it returns 0 and
\* changes nothing.
C8_TouchKey ==
    [][(Step /\ call'.op = "touch_key")
          => /\ call'.n = Cardinality(KeyNodes(call'.c, call'.k))
             /\ call'.n = count(State, call'.c, call'.k)
             /\ \A p \in NodeIds :
                   elem'[p] = IF p \in KeyNodes(call'.c, call'.k)
                              THEN [elem[p] EXCEPT !.when = now[clock[call'.c]]]
                              ELSE elem[p]
             /\ Without(list'[call'.c], KeyNodes(call'.c, call'.k))
                  = Without(list[call'.c], KeyNodes(call'.c, call'.k))
             /\ SeqSet(list'[call'.c]) = Stored(call'.c)
             /\ \A i \in 1..Len(list'[call'.c]) :
                   (i > Len(list[call'.c]) - call'.n)
                      <=> (list'[call'.c][i] \in KeyNodes(call'.c, call'.k))
             /\ assoc(StateNew, call'.c) = assoc(State, call'.c)
             /\ (call'.n = 0 => UNCHANGED <<elem, list, tree, table, m_buck, vecs, clock>>)]_vars

\* a newly constructed container in the place of c: empty indices and, in
\* the unordered class, a bucket vector of its own
construct(S, c) ==
    IF IsUnordered
    THEN [vec_new(S, NewVec(S), suggested_upper_bucket_count(0))
             EXCEPT !.list[c] = <<>>,
                    !.table[c] = [arr |-> NewVec(S),
                                  cnt |-> suggested_upper_bucket_count(0), size |-> 0],
                    !.m_buck[c] = [mlf |-> InitialMaxLoadFactor * LFDen, vec |-> NewVec(S),
                                   size |-> suggested_upper_bucket_count(0)]]
    ELSE [S EXCEPT !.list[c] = <<>>, !.tree[c] = <<>>]

\* what a caller sees of container c in the state S
KeysOf(S, s) == [i \in 1..Len(s) |-> S.elem[s[i]].key]
Observe(S, c) ==
    [size |-> size(S, c),
     assoc |-> KeysOf(S, assoc(S, c)),
     chronological |-> KeysOf(S, S.list[c]),
     load |-> IsUnordered => load_factor_ok(S, c),
     fails |-> S.fatal]

\* the values vs inserted one after the other; rs collects what the calls
\* returned and what was seen after each
RECURSIVE insert_seq(_, _, _, _)
insert_returned(r, c, vs, rs) ==
    insert_seq(r.s, c, vs, Append(rs, [ok |-> r.ok, seen |-> Observe(r.s, c)]))
insert_seq(S, c, vs, rs) ==
    IF vs = <<>> \/ S.fatal THEN rs
    ELSE insert_returned(insert(S, c, Head(vs)), c, Tail(vs), rs)

\* the insertions tried after clear
InsertSeqs(S) ==
    {vs \in UNION {[1..n -> [key : Keys, mapped : {0}]] : n \in 0..MaxRange} :
        Len(vs) <= Cardinality(FreeIds(S))}

\* C9: after clear() size() is 0, both traversals are empty, and every
\* sequence of inserts gives the results it gives on a new container:
\* the values returned, the associative order, the chronological order
\* and the load-factor bound.
C9_ClearIsFresh ==
    (Returned /\ call.op = "clear")
        => /\ size(State, call.c) = 0
           /\ list[call.c] = <<>>
           /\ assoc(State, call.c) = <<>>
           /\ \A vs \in InsertSeqs(State) :
                 insert_seq(State, call.c, vs, <<>>)
                    = insert_seq(construct(State, call.c), call.c, vs, <<>>)

\* C10: in the unordered class, after every call that increases size()
\* (insert, range insert, emplace, emplace_hint, operator[], copy and move
\* assignment) size() / bucket_count() <= max_load_factor().
C10_LoadFactorAfterGrowth ==
    [][(Step /\ IsUnordered /\ call'.op \in GrowOps
             /\ size(StateNew, call'.c) > size(State, call'.c))
          => load_factor_ok(StateNew, call'.c)]_vars

\* C11: in the unordered class, between any two public calls (rehash,
\* reserve, max_load_factor, erase, clear, assignment and swap included)
\* the node counts of the buckets sum to size() and
\* size() / bucket_count() <= max_load_factor().
C11_BucketsSumAndLoad ==
    (IsUnordered /\ ~crashed) =>
        \A c \in Cont :
            /\ Len(uno_iter(State, c)) = uno_size(State, c)
            /\ load_factor_ok(State, c)

ord_copy_construct(S, c, other) ==
    ord_insert_from(config_assign(construct(S, c), c, other), c, other)

\* operator==: the sizes, then std::equal over the keys
ord_equal(S, c, other) ==
    /\ ord_size(S, c) = ord_size(S, other)
    /\ \A i \in 1..Len(S.tree[c]) :
          /\ i <= Len(S.tree[other])
          /\ extract(S, S.tree[c][i]) = extract(S, S.tree[other][i])

\* in the state S container c is a copy of src as src is in the state
\* before: equal, value for value, on nodes of its own, src left alone
IsCopy(S, c, src) ==
    /\ ord_equal(S, c, src)
    /\ ord_values(S, c) = ord_values(S, src)
    /\ SeqSet(S.tree[c]) \cap SeqSet(S.tree[src]) = {}
    /\ SeqSet(S.list[c]) \cap SeqSet(S.list[src]) = {}
    /\ S.tree[src] = tree[src]
    /\ S.list[src] = list[src]
    /\ \A p \in Stored(src) : S.elem[p] = elem[p]

MutatingOps ==
    InsertOps \cup {"insert_range", "insert_random", "erase", "erase_range",
                    "erase_key", "touch", "touch_key", "clear"}

\* C13: in the ordered class copy construction and copy assignment give
\* a container equal to the source on nodes of its own: a later insert,
\* erase, touch or clear on one of the two leaves the size, both
\* traversals and every when of the other as they were.
C13_CopyIsEqualAndIndependent ==
    [][~IsUnordered =>
          /\ (Step /\ call'.op = "assign_copy")
                => IsCopy(StateNew, call'.c, Other(call'.c))
          /\ \A c \in Cont :
                Cardinality(FreeIds(State)) >= Len(tree[Other(c)])
                   => IsCopy(ord_copy_construct(State, c, Other(c)), c, Other(c))
          /\ (Step /\ call'.op \in MutatingOps)
                => /\ tree'[Other(call'.c)] = tree[Other(call'.c)]
                   /\ list'[Other(call'.c)] = list[Other(call'.c)]
                   /\ \A p \in Stored(Other(call'.c)) : elem'[p] = elem[p]]_vars

\* a source with two nodes was copied by assignment and the copy was
\* changed afterwards
C13_Witness ==
    /\ ~IsUnordered
    /\ Returned
    /\ call.op \in {"erase", "touch"}
    /\ call.c = "a"
    /\ clock["a"] = 2
    /\ Len(list["b"]) = 2
    /\ list["b"] # tree["b"]
    /\ list["a"] # <<>>
    /\ Stored("a") \cap Stored("b") = {}

\* the ranges R tried: every sequence of at most MaxInput values
RangeInputs == UNION {[1..n -> Values] : n \in 0..MaxInput}

\* the keys of R in the comparator's order, each once
KeysIn(vs) == {vs[i].key : i \in 1..Len(vs)}
SortedKeys(K) ==
    CHOOSE s \in [1..Cardinality(K) -> K] :
        \A i, j \in 1..Cardinality(K) : i < j => Compare(s[i], s[j])
\* the first value of R with a key equivalent to k
FirstOf(vs, k) ==
    vs[Min({i \in 1..Len(vs) : ~Compare(vs[i].key, k) /\ ~Compare(k, vs[i].key)})]
SortUnique(vs) ==
    [i \in 1..Cardinality(KeysIn(vs)) |-> FirstOf(vs, SortedKeys(KeysIn(vs))[i])]

\* C14: the range insert of any sequence R into an empty ordered unique
\* container leaves, in associative order, the keys of R sorted by the
\* comparator, each equivalence class of keys once, as the first value of
\* R in that class.
C14_RangeInsertSortsUnique ==
    (~IsUnordered /\ ~IsMulti) =>
        \A vs \in RangeInputs :
            Len(vs) <= Cardinality(FreeIds(State))
               => ord_values(ord_insert_range(construct(State, "a"), "a", vs), "a")
                     = SortUnique(vs)

\* the first call was a range insert into the empty container that had
\* to reorder its range
C14_Witness ==
    /\ ~IsUnordered /\ ~IsMulti
    /\ Returned
    /\ calls = 1
    /\ call.op = "insert_range"
    /\ call.c = "a"
    /\ Len(tree["a"]) = 2
    /\ list["a"] # tree["a"]
    /\ ord_values(State, "a") = SortUnique(ord_values(State, "a"))

\* C15: on a unique map at (k) with no stored key equivalent to k raises
\* the key-not-found error and leaves the container as it was (size,
\* both traversals, every when, the buckets); with k stored it returns
\* the mapped value of the node with that key.
C15_AtFindsOrRaises ==
    [][(Step /\ call'.op = "at")
          => /\ UNCHANGED <<elem, list, tree, table, m_buck, vecs, clock>>
             /\ KeyNodes(call'.c, call'.k) = {} => ~call'.ok
             /\ KeyNodes(call'.c, call'.k) # {}
                   => (call'.ok /\ call'.it \in KeyNodes(call'.c, call'.k))]_vars

\* C16: on a unique map operator[] (k) with no stored key equivalent to k
\* raises nothing and adds exactly one node: key k, a default mapped
\* value, when = the clock's reading, last in the chronological list,
\* size() one more; the reference returned is that node's mapped value,
\* and a write through it changes the mapped value only.
C16_IndexOperatorInserts ==
    [][/\ (Step /\ call'.op = "operator_index" /\ KeyNodes(call'.c, call'.k) = {})
             => /\ call'.ok
                /\ ~elem[call'.it].live
                /\ elem' = [elem EXCEPT ![call'.it] =
                               [live |-> TRUE, key |-> call'.k, mapped |-> 0,
                                when |-> now[clock[call'.c]],
                                alloc |-> alloc[call'.c]]]
                /\ list'[call'.c] = Append(list[call'.c], call'.it)
                /\ list'[Other(call'.c)] = list[Other(call'.c)]
                /\ size(StateNew, call'.c) = size(State, call'.c) + 1
                /\ find(StateNew, call'.c, call'.k) = call'.it
                /\ call'.allocs = 1 /\ call'.frees = 0
       /\ (call'.op = "write" /\ call.op = "operator_index")
             => /\ \A p \in NodeIds :
                      /\ elem'[p].when = elem[p].when
                      /\ elem'[p].key = elem[p].key
                      /\ elem'[p].live = elem[p].live
                      /\ p # call.it => elem'[p] = elem[p]
                /\ UNCHANGED <<list, tree, table, m_buck, vecs, clock>>]_vars

\* operator[] added a node behind an older one after the clock advanced,
\* and the caller wrote through the reference
C16_Witness ==
    /\ call.op = "write"
    /\ Len(list[call.c]) >= 2
    /\ Last(list[call.c]) = call.it
    /\ elem[call.it].when = 1
    /\ elem[call.it].mapped = 1
    /\ elem[list[call.c][1]].when = 0

\* C17: when an insertion is left by a failure of the constructor, the
\* clock or the comparator, hasher or equality after the node was
\* allocated, the node has been destroyed and deallocated, and the
\* elements, both orders and every when are those before the call.
C17_FailureRestoresState ==
    [][(Step /\ call'.op = "emplace_throws")
          => /\ call'.frees = call'.allocs
             /\ elem' = elem
             /\ list' = list
             /\ \A c \in Cont : assoc(StateNew, c) = assoc(State, c)]_vars

\* the values of [begin(), end()) of the associative index
values(S, c) == [i \in 1..Len(assoc(S, c)) |-> ValueOf(S, assoc(S, c)[i])]

\* C18: after a = std::move (b) the source b is empty in size and in both
\* traversals, every previous element of a has been deallocated, and the
\* associative traversal of a is the one b had before the call.
C18_MoveAssignment ==
    [][(Step /\ call'.op = "assign_move")
          => /\ size(StateNew, Other(call'.c)) = 0
             /\ list'[Other(call'.c)] = <<>>
             /\ assoc(StateNew, Other(call'.c)) = <<>>
             /\ call'.frees = Len(list[call'.c]) + Len(list[Other(call'.c)])
             /\ values(StateNew, call'.c) = values(State, Other(call'.c))]_vars

\* C19: for two ordered containers a == b holds exactly when the sizes
\* are equal and the associative traversals are pairwise equal in keys
\* and, the containers being maps, in mapped values; chronological order
\* and when do not enter.
C19_EqualityOfTraversals ==
    ~IsUnordered =>
        \A c \in Cont :
            ord_equal(State, c, Other(c)) <=>
                /\ ord_size(State, c) = ord_size(State, Other(c))
                /\ ord_values(State, c) = ord_values(State, Other(c))

\* the associative order of container c after the step keeps every key
\* run together: no node stands before a node of a smaller key
RunsTogether(c) ==
    \A i, j \in 1..Len(tree'[c]) :
        i < j => ~Compare(elem'[tree'[c][j]].key, elem'[tree'[c][i]].key)

\* the node p entered the associative order of c behind every node with an
\* equivalent key, and the nodes already there kept their order
EntersBehindEquivalents(c, p) ==
    /\ p \notin SeqSet(tree[c])
    /\ p \in SeqSet(tree'[c])
    /\ Without(tree'[c], {p}) = tree[c]
    /\ \A j \in 1..Len(tree'[c]) :
          j > IndexOf(tree'[c], p) => Compare(elem'[p].key, elem'[tree'[c][j]].key)

\* C20: in an ordered multi container the nodes with equivalent keys form
\* one run of the associative traversal and stand in it in the order of
\* their insertion: insert, hinted insert, emplace and emplace_hint put
\* the node behind its equivalents, erase only removes nodes, and touch
\* leaves the associative order alone.
C20_EquivalentKeysInInsertionOrder ==
    [][(~IsUnordered /\ IsMulti /\ Step)
          => /\ RunsTogether(call'.c)
             /\ call'.op \in {"insert", "insert_hint", "emplace", "emplace_hint"}
                   => EntersBehindEquivalents(call'.c, call'.it)
             /\ call'.op \in {"erase", "erase_range", "erase_key"}
                   => tree'[call'.c] = Without(tree[call'.c],
                                               SeqSet(tree[call'.c]) \ SeqSet(tree'[call'.c]))
             /\ call'.op \in {"touch", "touch_key"} => tree'[call'.c] = tree[call'.c]]_vars

\* a touch moved the older of two equivalent nodes behind the younger one
\* in the chronological list; the run keeps the insertion order
C20_Witness ==
    /\ ~IsUnordered /\ IsMulti /\ Returned /\ call.op = "touch"
    /\ Len(tree["a"]) = 3
    /\ elem[tree["a"][1]].key = elem[tree["a"][2]].key
    /\ IndexOf(list["a"], tree["a"][1]) > IndexOf(list["a"], tree["a"][2])
    /\ tree["a"][1] < tree["a"][2]

\* [begin(), end()] of the associative index before the step, end() included
AssocEnd(c) == assoc(State, c) \o <<End>>

\* the nodes of [first, last) of an erase of n positions from first
Erased(c, first, n) ==
    {AssocEnd(c)[i] : i \in IndexOf(AssocEnd(c), first)..(IndexOf(AssocEnd(c), first) + n - 1)}

\* C21: erase (pos) removes exactly the node at pos from both indices and
\* returns the iterator to its successor in associative order, end() after
\* the last one; erase (first, last) removes exactly the nodes of
\* [first, last) and returns last; size() goes down by the number removed.
C21_EraseRemovesExactly ==
    [][(Step /\ call'.op \in {"erase", "erase_range"})
          => /\ list'[call'.c] = Without(list[call'.c], Erased(call'.c, call'.p, call'.n))
             /\ assoc(StateNew, call'.c)
                   = Without(assoc(State, call'.c), Erased(call'.c, call'.p, call'.n))
             /\ call'.it = AssocEnd(call'.c)[IndexOf(AssocEnd(call'.c), call'.p) + call'.n]
             /\ size(StateNew, call'.c) = size(State, call'.c) - call'.n
             /\ call'.frees = call'.n
             /\ \A p \in Erased(call'.c, call'.p, call'.n) : ~elem'[p].live
             /\ list'[Other(call'.c)] = list[Other(call'.c)]]_vars

\* a range of two nodes was erased from the middle on, one node stays
\* behind in both indices
C21_Witness ==
    /\ Returned /\ call.op = "erase_range" /\ call.n = 2 /\ call.it = End
    /\ Len(list[call.c]) = 1 /\ assoc(State, call.c) = list[call.c]

\* the calls that insert through maybe_rehash
RehashingInserts == InsertOps \cup {"insert_range", "insert_random"}

\* C22: in the unordered containers a rehash, by rehash (n), by
\* reserve (n) or by maybe_rehash inside an insertion, leaves the stored
\* nodes, their values and when, size() and the chronological order as
\* they were and allocates and deallocates no node: the explicit calls
\* change nothing of these, and an insertion keeps the chronological list
\* as a prefix and only appends the nodes it inserted, so keys inserted
\* one after the other are traversed chronologically in that order.
C22_RehashKeepsNodesAndOrder ==
    [][(IsUnordered /\ Step)
          => /\ call'.op \in {"rehash", "reserve"}
                   => /\ elem' = elem
                      /\ list' = list
                      /\ size(StateNew, call'.c) = size(State, call'.c)
                      /\ call'.allocs = 0 /\ call'.frees = 0
             /\ call'.op \in RehashingInserts
                   => /\ Len(list'[call'.c]) >= Len(list[call'.c])
                      /\ SubSeq(list'[call'.c], 1, Len(list[call'.c])) = list[call'.c]
                      /\ \A p \in Stored(call'.c) : elem'[p] = elem[p]
                      /\ call'.allocs - call'.frees
                            = Len(list'[call'.c]) - Len(list[call'.c])
                      /\ size(StateNew, call'.c)
                            = size(State, call'.c) + call'.allocs - call'.frees
                      /\ (call'.op \in InsertOps /\ call'.ok)
                            => list'[call'.c] = Append(list[call'.c], call'.it)]_vars

\* an insertion into a container of three nodes changed the bucket count
\* and appended its node
C22_Witness ==
    /\ IsUnordered /\ Returned /\ call.op \in InsertOps /\ call.ok
    /\ Len(list[call.c]) = 4
    /\ Last(list[call.c]) = call.it
    /\ uno_bucket_count(State, call.c) > suggested_upper_bucket_count(0)
    /\ uno_size(State, call.c) = 4

\* C23: max_load_factor (f) only raises the limit: afterwards
\* max_load_factor() is the larger of f and the limit before the call, a
\* smaller f leaves it as it was, and neither the elements nor
\* bucket_count() change.
C23_MaxLoadFactorOnlyRaises ==
    [][(Step /\ call'.op = "max_load_factor")
          => /\ uno_max_load_factor(StateNew, call'.c)
                   = Max({call'.k, uno_max_load_factor(State, call'.c)})
             /\ call'.k < uno_max_load_factor(State, call'.c)
                   => uno_max_load_factor(StateNew, call'.c)
                         = uno_max_load_factor(State, call'.c)
             /\ uno_max_load_factor(StateNew, Other(call'.c))
                   = uno_max_load_factor(State, Other(call'.c))
             /\ elem' = elem
             /\ list' = list
             /\ \A c \in Cont :
                   /\ assoc(StateNew, c) = assoc(State, c)
                   /\ uno_bucket_count(StateNew, c) = uno_bucket_count(State, c)]_vars

\* a limit raised to 2.0 was then asked down to 0.5 and stayed
C23_Witness ==
    /\ Returned /\ call.op = "max_load_factor" /\ call.k = 1
    /\ uno_max_load_factor(State, call.c) = 4
    /\ list[call.c] # <<>>

\* the calls that construct or touch nodes
StampingOps ==
    RehashingInserts \cup {"touch", "touch_key", "assign_copy", "assign_move", "assign_init"}

\* C24: the when of every stored node is the reading of the container's
\* clock in the latest call that inserted or touched the node: a call
\* leaves a node's when as it was or sets it to the clock's reading, calls
\* that neither insert nor touch leave every when as it was, and no when
\* is above the clock's reading.
C24_WhenComesFromClock ==
    [][(Step \/ call'.op = "write")
          => \A c \in Cont : \A p \in SeqSet(list'[c]) :
                /\ elem'[p].when <= now[clock'[c]]
                /\ \/ elem[p].live /\ elem'[p].when = elem[p].when
                   \/ call'.op \in StampingOps /\ elem'[p].when = now[clock'[c]]
                /\ (call'.op = "touch" /\ call'.c = c /\ call'.p = p)
                      => elem'[p].when = now[clock'[c]]]_vars

\* a node inserted before the clock advanced stands in front of a node
\* touched after it
C24_Witness ==
    /\ Returned /\ call.op = "touch" /\ IsUnordered
    /\ Len(list[call.c]) = 2
    /\ elem[list[call.c][1]].when = 0
    /\ elem[list[call.c][2]].when = 1
    /\ call.p = list[call.c][2]

\* the last n nodes of the chronological list before the step
Newest(c, n) == SubSeq(list[c], Len(list[c]) - n + 1, Len(list[c]))

\* C25: the loop that calls erase (chronological.begin()) while
\* size() > n removes the nodes oldest first, every call returning the
\* chronological iterator to the next-oldest node, and ends with exactly
\* the n nodes inserted or touched last.
C25_EvictionOldestFirst ==
    [][(Step /\ call'.op = "erase_oldest")
          => /\ call'.p = Head(list[call'.c])
             /\ list'[call'.c] = Tail(list[call'.c])
             /\ call'.it = (IF Len(list[call'.c]) > 1 THEN list[call'.c][2] ELSE End)
             /\ assoc(StateNew, call'.c) = Without(assoc(State, call'.c), {call'.p})
             /\ size(StateNew, call'.c) = size(State, call'.c) - 1
             /\ \A n \in 0..Len(list[call'.c]) :
                   /\ ~evict(State, call'.c, n).fatal
                   /\ evict(State, call'.c, n).list[call'.c] = Newest(call'.c, n)
                   /\ size(evict(State, call'.c, n), call'.c) = n]_vars

\* C26: a hinted insertion does not depend on the hint: for every value
\* and every valid hint, end() included, insert (hint, v) and
\* emplace_hint (hint, v) leave the container in the state insert (v) and
\* emplace (v) leave it in, elements, both orders and when, and yield the
\* same node.
C26_HintIsAdvisory ==
    (CanCall /\ CanAlloc(1)) =>
        \A v \in Values : \A hint \in Hints("a") :
            /\ insert_hint(State, "a", hint, v) = insert(State, "a", v)
            /\ emplace_hint(State, "a", hint, v) = emplace(State, "a", v)

\* a hinted insertion put the smaller key in front of the older node; with
\* the hint begin() the key fits the hint, with end() it does not
C26_Witness ==
    /\ ~IsUnordered /\ ~IsMulti /\ Returned /\ call.op = "insert_hint" /\ call.ok
    /\ Len(tree["a"]) = 2
    /\ tree["a"][1] = call.it
    /\ list["a"] = <<tree["a"][2], tree["a"][1]>>

\* the nodes allocated and not deallocated
LiveNodes == {p \in NodeIds : elem[p].live}

\* C27: in a set or map insert (v) probes before it allocates, so a call
\* whose key is stored allocates no node; emplace constructs its node
\* before the probe, so a call whose key is stored allocates one node and
\* destroys and deallocates that node before it returns the existing
\* iterator and false; either way the number of live nodes is size().
C27_ProbeBeforeAllocation ==
    [][(~IsMulti /\ Step /\ call'.op \in {"insert", "insert_hint", "emplace", "emplace_hint"}
          /\ KeyNodes(call'.c, call'.k) # {})
          => /\ ~call'.ok
             /\ call'.it \in KeyNodes(call'.c, call'.k)
             /\ call'.allocs = (IF call'.op \in {"emplace", "emplace_hint"} THEN 1 ELSE 0)
             /\ call'.frees = call'.allocs
             /\ elem' = elem
             /\ list' = list
             /\ Cardinality(LiveNodes')
                   = size(StateNew, call'.c) + size(StateNew, Other(call'.c))]_vars

\* C28: after rehash (n) of an unordered container bucket_count() is at
\* least n and at least size() / max_load_factor(), and find yields a node
\* with the key of every stored node; reserve (n) is
\* rehash (ceil (n / max_load_factor())), so bucket_count() times
\* max_load_factor() is at least n.
C28_RehashKeepsElementsFound ==
    [][(Step /\ call'.op \in {"rehash", "reserve"})
          => /\ uno_bucket_count(StateNew, call'.c) * uno_max_load_factor(StateNew, call'.c)
                   >= uno_size(StateNew, call'.c) * LFDen
             /\ call'.op = "rehash" => uno_bucket_count(StateNew, call'.c) >= call'.k
             /\ call'.op = "reserve"
                   => uno_bucket_count(StateNew, call'.c)
                         * uno_max_load_factor(StateNew, call'.c) >= call'.k * LFDen
             /\ \A p \in Stored(call'.c) :
                   /\ find(StateNew, call'.c, elem[p].key) # End
                   /\ KeyEqual(elem'[find(StateNew, call'.c, elem[p].key)].key, elem[p].key)]_vars

\* C29: over any sequence of public calls on an unordered container,
\* clear, the assignments and swap included, the value max_load_factor()
\* returns never decreases.
C29_MaxLoadFactorNeverDecreases ==
    [][(IsUnordered /\ Step)
          => \A c \in Cont :
                uno_max_load_factor(StateNew, c) >= uno_max_load_factor(State, c)]_vars

\* the calls that deallocate nodes of the container they are made on
ErasingOps == {"erase", "erase_range", "erase_key", "erase_oldest", "clear"}

\* C30: swap leads to no deallocation across containers: with an
\* allocator that propagates on swap the allocators go with the nodes,
\* with one that does not each container keeps its own, and either way
\* every node erased or cleared after any number of swaps is deallocated
\* through the allocator that allocated it, delete_element using the
\* allocator of the container the call is made on.
C30_SwapKeepsAllocatorOfNodes ==
    [][/\ (Step /\ call'.op = "swap")
             => \A c \in Cont :
                   alloc'[c] = (IF variant.propagate THEN alloc[Other(c)] ELSE alloc[c])
       /\ (Step /\ call'.op \in ErasingOps)
             => \A p \in Stored(call'.c) \ SeqSet(list'[call'.c]) :
                   elem[p].alloc = alloc[call'.c]]_vars

\* the state after both containers are destroyed
Destroyed == destroy(destroy(State, "a"), "b")

\* C31: after any sequence of public calls that returned, the destruction
\* of the containers comes to its end, destroys and deallocates every
\* node that was allocated and not yet deallocated exactly once, and
\* leaves no node allocated; this holds for the clear() of both
\* containers.
C31_DestructionReleasesEveryNode ==
    ~crashed =>
        /\ ~Destroyed.fatal
        /\ {p \in NodeIds : Destroyed.elem[p].live} = {}
        /\ Destroyed.frees = Cardinality(LiveNodes)

\* the nodes a call removed from the container c
Gone(c) == Stored(c) \ SeqSet(list'[c])

\* C32: erase by iterator, by range and by key leaves the nodes it does
\* not remove untouched: the nodes that stay keep their values and their
\* `when`, and they keep their relative order in the chronological and
\* in the associative traversal; the other container is not changed.
C32_EraseLeavesOthersUntouched ==
    [][(Step /\ call'.op \in {"erase", "erase_range", "erase_key", "erase_oldest"})
          => /\ list'[call'.c] = Without(list[call'.c], Gone(call'.c))
             /\ assoc(StateNew, call'.c) = Without(assoc(State, call'.c), Gone(call'.c))
             /\ \A p \in SeqSet(list'[call'.c]) : elem'[p] = elem[p]
             /\ list'[Other(call'.c)] = list[Other(call'.c)]
             /\ assoc(StateNew, Other(call'.c)) = assoc(State, Other(call'.c))
             /\ \A p \in SeqSet(list'[Other(call'.c)]) : elem'[p] = elem[p]]_vars

\* erase (k) removed two equivalent nodes of a multi container from between
\* two nodes of another key, which stay in their chronological order
C32_Witness ==
    /\ IsMulti /\ Returned /\ call.op = "erase_key" /\ call.n = 2
    /\ list[call.c] = <<2, 4>>
    /\ elem[2].key = elem[4].key
    /\ assoc(State, call.c) = <<2, 4>>

\* C33: erase (k) never reads the element at end(): in every state and for
\* every key k the test of the loop is evaluated on a stored node, also
\* when the last node equivalent to k is the last node of the associative
\* traversal.
C33_EraseKeyStaysBeforeEnd ==
    CanCall =>
        \A k \in Keys, garbage \in BOOLEAN : ~erase_key(State, "a", k, garbage).read_end

\* C34: in the unordered containers, after every public call that
\* returned, the bucket array m_cont uses is the vector m_buck of the same
\* container owns, and bucket_count() is the length of that vector: the
\* index never refers to an array that was cleared, replaced or
\* deallocated, or that another container owns.
C34_IndexUsesOwnBuckets ==
    (IsUnordered /\ ~crashed) =>
        \A c \in Cont :
            /\ table[c].arr = m_buck[c].vec
            /\ vecs[table[c].arr].alive
            /\ uno_bucket_count(State, c) = m_buck[c].size
            /\ table[c].arr # table[Other(c)].arr

\* C35: the assertion load_factor() <= max_load_factor() at the end of
\* maybe_rehash (additional) holds in every call made through the public
\* operations, for every additional >= 0, an empty random access range
\* included, and for every bucket count, the bucket count 0 after
\* rehash (0) on an empty container included.
C35_LoadFactorAssertionHolds ==
    Returned => call.asserted

\* the lookups
LookupOps == {"find", "count", "equal_range", "lower_bound", "upper_bound", "at"}

\* C36: lookups do not refresh recency: find, count, equal_range,
\* lower_bound, upper_bound and an at (k) that finds k leave size(), the
\* `when` of every node, the chronological order and the associative order
\* as they were, and what they return is what the index holds; of the
\* calls on stored nodes only touch changes a `when` or the relative
\* chronological order of the nodes that stay.
C36_LookupsDoNotTouch ==
    [][/\ (Step /\ call'.op \in LookupOps)
             => /\ UNCHANGED <<elem, list, tree, table, m_buck, vecs, clock, alloc>>
                /\ size(StateNew, call'.c) = size(State, call'.c)
                /\ assoc(StateNew, call'.c) = assoc(State, call'.c)
                /\ call'.op = "find" => call'.it = find(State, call'.c, call'.k)
                /\ call'.op = "count" => call'.n = count(State, call'.c, call'.k)
       /\ (Step /\ call'.op \notin {"touch", "touch_key"})
             => /\ \A p \in Stored(call'.c) \cap SeqSet(list'[call'.c]) :
                      elem'[p].when = elem[p].when
                /\ Without(list'[call'.c], SeqSet(list'[call'.c]) \ Stored(call'.c))
                      = Without(list[call'.c], Gone(call'.c))]_vars

\* find (k) returned the older of two nodes, and that node is still the
\* first of the chronological list
C36_Witness ==
    /\ Returned /\ call.op = "find" /\ call.it # End
    /\ Len(list[call.c]) = 2
    /\ call.it = list[call.c][1]

\* C37: on a unique map operator[] (k) with a stored key equivalent to k
\* returns the mapped value of the node with that key and adds nothing:
\* size(), the `when` of that node, the chronological order and every
\* other node are as they were; the access is not a touch.
C37_IndexOperatorFindsStored ==
    [][(Step /\ call'.op = "operator_index" /\ KeyNodes(call'.c, call'.k) # {})
          => /\ ~call'.ok
             /\ call'.it \in KeyNodes(call'.c, call'.k)
             /\ elem' = elem
             /\ list' = list
             /\ size(StateNew, call'.c) = size(State, call'.c)
             /\ call'.allocs = 0 /\ call'.frees = 0]_vars

\* aged_unordered_container (aged_unordered_container const& other): a
\* container of its own buckets, then insert (other.cbegin(), other.cend())
uno_copy_construct(S, c, other) ==
    uno_insert_input(uno_access(config_assign(construct(S, c), c, other), other),
                     c, uno_values(S, other))

copy_construct(S, c, other) ==
    IF IsUnordered THEN uno_copy_construct(S, c, other) ELSE ord_copy_construct(S, c, other)

\* the values of container c in chronological order
ChronologicalValues(S, c) == [i \in 1..Len(S.list[c]) |-> ValueOf(S, S.list[c][i])]

\* in the state S container c holds the elements src had, re-inserted in
\* the associative order of src and stamped with the clock's reading
Reinserted(S, c, src) ==
    /\ ChronologicalValues(S, c) = values(State, src)
    /\ \A p \in SeqSet(S.list[c]) : S.elem[p].when = now[clock[src]]
    /\ S.clock[c] = clock[src]

\* in the state S the chronological list of src and its nodes are as before
SourceKept(S, src) ==
    /\ S.list[src] = list[src]
    /\ \A p \in Stored(src) : S.elem[p] = elem[p]

\* C38: copy construction, copy assignment and move assignment re-insert
\* the elements of the source in the source's associative order: in the
\* destination every `when` is the clock's reading during the copy, not
\* the `when` of the source, and the chronological order is the
\* associative order of the source, not its chronological order; a copy
\* leaves the `when` values and the chronological order of the source as
\* they were.  The copy construction is taken in the state from which the
\* copy assignment is made.
C38_CopiesReinsertInAssociativeOrder ==
    [][/\ (Step /\ call'.op = "assign_copy")
             => /\ Reinserted(StateNew, call'.c, Other(call'.c))
                /\ SourceKept(StateNew, Other(call'.c))
                /\ (/\ Cardinality(FreeIds(State)) >= Len(assoc(State, Other(call'.c)))
                    /\ ~copy_construct(State, call'.c, Other(call'.c)).fatal)
                      => /\ Reinserted(copy_construct(State, call'.c, Other(call'.c)),
                                       call'.c, Other(call'.c))
                         /\ SourceKept(copy_construct(State, call'.c, Other(call'.c)),
                                       Other(call'.c))
       /\ (Step /\ call'.op = "assign_move")
             => Reinserted(StateNew, call'.c, Other(call'.c))]_vars

\* a copy by assignment of a source whose two nodes were inserted against
\* the associative order, at an earlier reading of the clock
C38_Witness ==
    /\ Returned /\ call.op = "assign_copy"
    /\ Len(list[call.c]) = 2 /\ Len(list[Other(call.c)]) = 2
    /\ ChronologicalValues(State, call.c) # ChronologicalValues(State, Other(call.c))
    /\ \A p \in Stored(call.c) : elem[p].when = 1
    /\ \A p \in Stored(Other(call.c)) : elem[p].when = 0

\* after each insert of vs that returns with size() <= n the bucket count
\* of c is buckets
RECURSIVE no_rehash_seq(_, _, _, _, _), no_rehash_after(_, _, _, _, _)
no_rehash_after(S, c, vs, n, buckets) ==
    \/ S.fatal
    \/ uno_size(S, c) > n
    \/ /\ uno_bucket_count(S, c) = buckets
       /\ no_rehash_seq(S, c, vs, n, buckets)
no_rehash_seq(S, c, vs, n, buckets) ==
    \/ vs = <<>>
    \/ no_rehash_after(insert(S, c, Head(vs)).s, c, Tail(vs), n, buckets)

\* C39: in the unordered containers, after reserve (n) on a container with
\* size() <= n, inserts made one at a time cause no rehash while size()
\* stays <= n: bucket_count() is after each such insert what it was right
\* after reserve (n).
C39_NoRehashAfterReserve ==
    (IsUnordered /\ Returned /\ call.op = "reserve" /\ uno_size(State, call.c) <= call.k)
        => \A vs \in InsertSeqs(State) :
              no_rehash_seq(State, call.c, vs, call.k, uno_bucket_count(State, call.c))

\* the nodes equal_range (k) yields, in the associative order
EquivalentRun(c, k) ==
    SelectSeq(assoc(State, c), LAMBDA p : KeyEqual(elem[p].key, k))

====
